---- MODULE Spec2Model ----
(***************************************************************************)
(* Document question answering over an in-memory chunk store, as           *)
(* implemented by the scripts under Testing1/: document_qa.py, web_app.py, *)
(* web_app_multi_model.py, web_app_with_links.py, web_app_hr_bot.py and    *)
(* web_app_hr_bot_auth.py.                                                 *)
(*                                                                         *)
(* A Python str is modelled as a sequence of one-character strings, so     *)
(* that slicing, strip(), split(), lower(), rfind() and the `in` test are  *)
(* computed as Python computes them.  A fixed literal block of an f-string *)
(* that is never tokenised (the persona text of a prompt, the body of a    *)
(* canned answer) is one symbol of the sequence, named after the block.    *)
(***************************************************************************)
EXTENDS Integers, Sequences, FiniteSets, TLC

\* ------------------------------------------------------------------ bounds

\* The documents all the users of web_app_hr_bot_auth.py upload
MaxUploads == 1

\* Documents a store may hold in the model.
MaxDocs == 2

\* DocumentQASystem.chunk_size (1000 in the source), scaled down so that the
\* model's documents span several chunks.
chunk_size == 10

\* The length at which _fetch_url_content truncates a page (10000 in the
\* source), scaled down likewise.
fetch_limit == 12

\* ------------------------------------------------------------ Python str

Min(a, b) == IF a < b THEN a ELSE b

Max(a, b) == IF a > b THEN a ELSE b

SetMin(S) == CHOOSE m \in S : \A k \in S : m <= k

\* The characters str.strip() and str.split() treat as whitespace.
Whitespace == {" ", "\n"}

UpperSeq ==
    << "A", "B", "C", "D", "E", "F", "G", "H", "I", "J", "K", "L", "M",
       "N", "O", "P", "Q", "R", "S", "T", "U", "V", "W", "X", "Y", "Z" >>

set_of_upper == {UpperSeq[i] : i \in 1..Len(UpperSeq)}

LowerSeq ==
    << "a", "b", "c", "d", "e", "f", "g", "h", "i", "j", "k", "l", "m",
       "n", "o", "p", "q", "r", "s", "t", "u", "v", "w", "x", "y", "z" >>

\* The lower-case letter of each upper-case letter
to_lower == [c \in set_of_upper |-> LowerSeq[CHOOSE i \in 1..Len(UpperSeq) : UpperSeq[i] = c]]

lower_char(c) == IF c \in set_of_upper THEN to_lower[c] ELSE c

\* [f(x) for x in ...]: the list a comprehension builds, its elements computed
\* once
list(f) == SubSeq(f, 1, Len(f))

\* s.lower()
lower(s) == list([i \in 1..Len(s) |-> lower_char(s[i])])

\* s[a:b] for 0 <= a
Slice(s, a, b) == SubSeq(s, a + 1, Min(b, Len(s)))

\* s.rfind(c): the highest 0-based index of c in s, or -1
RECURSIVE rfind_from(_, _, _)
rfind_from(s, c, i) ==
    IF i = 0 THEN -1 ELSE IF s[i] = c THEN i - 1 ELSE rfind_from(s, c, i - 1)

rfind(s, c) == rfind_from(s, c, Len(s))

\* s.strip()
\* The 1-based position of the first character of s at or after i that is
\* not in chars (Len(s) + 1 if none), and of the last one at or before i (0 if
\* none)
RECURSIVE first_not_in(_, _, _)
first_not_in(s, chars, i) ==
    IF i > Len(s) \/ s[i] \notin chars THEN i ELSE first_not_in(s, chars, i + 1)

RECURSIVE last_not_in(_, _, _)
last_not_in(s, chars, i) ==
    IF i = 0 \/ s[i] \notin chars THEN i ELSE last_not_in(s, chars, i - 1)

\* str.strip() leaving the string as it is
not_stripped(s) == s

strip(s) == SubSeq(s, first_not_in(s, Whitespace, 1), last_not_in(s, Whitespace, Len(s)))

\* s.rstrip(chars)
rstrip(s, chars) == SubSeq(s, 1, last_not_in(s, chars, Len(s)))

\* The 1-based position of the first character of s at or after i that is
\* in chars (Len(s) + 1 if none)
RECURSIVE first_in(_, _, _)
first_in(s, chars, i) ==
    IF i > Len(s) \/ s[i] \in chars THEN i ELSE first_in(s, chars, i + 1)

RECURSIVE split_from(_, _)
split_from(s, i) ==
    LET start == first_not_in(s, Whitespace, i)
        end   == first_in(s, Whitespace, start)
    IN  IF start > Len(s) THEN << >>
        ELSE << SubSeq(s, start, end - 1) >> \o split_from(s, end)

\* s.split(): the whitespace-delimited tokens of s, in order
split(s) == split_from(s, 1)

\* set(seq)
set(seq) == {seq[i] : i \in 1..Len(seq)}

\* sub in s
contains(s, sub) ==
    \E i \in 0..(Len(s) - Len(sub)) : SubSeq(s, i + 1, i + Len(sub)) = sub

\* sep.join(parts)
RECURSIVE join(_, _)
join(sep, parts) ==
    IF parts = << >> THEN << >>
    ELSE IF Len(parts) = 1 THEN parts[1]
    ELSE parts[1] \o sep \o join(sep, Tail(parts))

\* ------------------------------------------------------------- _chunk_text

\* _chunk_text breaking a span at any break point later than 30% of the size
RECURSIVE chunk_from_early(_, _, _)
chunk_from_early(text, size, i) ==
    IF i >= Len(text) THEN << >>
    ELSE LET span        == Slice(text, i, i + size)
             break_point == Max(rfind(span, "."), rfind(span, "\n"))
             chunk == IF i + size < Len(text) /\ 10 * break_point > 3 * size
                      THEN Slice(span, 0, break_point + 1)
                      ELSE span
         IN  << strip(chunk) >> \o chunk_from_early(text, size, i + size)

\* _chunk_text breaking a span whose break point is at 70% of the size too
RECURSIVE chunk_from_ge(_, _, _)
chunk_from_ge(text, size, i) ==
    IF i >= Len(text) THEN << >>
    ELSE LET span        == Slice(text, i, i + size)
             break_point == Max(rfind(span, "."), rfind(span, "\n"))
             chunk == IF i + size < Len(text) /\ 10 * break_point >= 7 * size
                      THEN Slice(span, 0, break_point + 1)
                      ELSE span
         IN  << strip(chunk) >> \o chunk_from_ge(text, size, i + size)

\* One pass of the loop `for i in range(0, len(text), self.chunk_size)`.
RECURSIVE chunk_from(_, _, _)
chunk_from(text, size, i) ==
    IF i >= Len(text) THEN << >>
    ELSE LET span        == Slice(text, i, i + size)
             last_period == rfind(span, ".")
             last_newline == rfind(span, "\n")
             break_point == Max(last_period, last_newline)
             chunk == IF i + size < Len(text) /\ 10 * break_point > 7 * size
                      THEN Slice(span, 0, break_point + 1)
                      ELSE span
         IN  << strip(chunk) >> \o chunk_from(text, size, i + size)

NonEmpty(c) == strip(c) # << >>

chunk_text_sized(text, size) == SelectSeq(chunk_from(text, size, 0), NonEmpty)

chunk_text(text) == chunk_text_sized(text, chunk_size)

\* ------------------------------------------------- _extract_urls_from_text

\* Characters of the model's alphabet that the character class of url_pattern
\* ([a-zA-Z], [0-9], [$-_@.&+], [!*\(\),], %xx) does not match.
UrlExcluded == {" ", "\n", "#", "{", "|", "}", "~"}

\* Characters of the model's alphabet that the class [^\s<>"{}|\\^`\[\]] of
\* web_app_hr_bot_auth.py does not match.
AuthUrlExcluded == {" ", "\n", "<", ">", "{", "}", "|", "^", "[", "]"}

starts_with(s, i, prefix) ==
    /\ i + Len(prefix) - 1 <= Len(s)
    /\ SubSeq(s, i, i + Len(prefix) - 1) = prefix

\* Length of the match of http[s]?://(class)+ at 1-based position i of s, 0
\* if none; excluded holds the characters the class does not match.
url_match_len(s, i, excluded) ==
    LET scheme == IF starts_with(s, i, <<"h","t","t","p","s",":","/","/">>) THEN 8
                  ELSE IF starts_with(s, i, <<"h","t","t","p",":","/","/">>) THEN 7
                  ELSE 0
        first  == i + scheme
        end    == first_in(s, excluded, first) - 1
    IN  IF scheme = 0 \/ end < first THEN 0 ELSE end - i + 1

\* pattern.findall(text): the non-overlapping matches, left to right
RECURSIVE findall_from(_, _, _)
findall_from(s, i, excluded) ==
    IF i > Len(s) THEN << >>
    ELSE LET n == url_match_len(s, i, excluded)
         IN  IF n = 0 THEN findall_from(s, i + 1, excluded)
             ELSE << SubSeq(s, i, i + n - 1) >> \o findall_from(s, i + n, excluded)

TrailingPunctuation == {".", ",", ";", ":", "!", "?"}

extract_urls_from_text(text) ==
    LET matches == findall_from(text, 1, UrlExcluded)
        cleaned == {rstrip(matches[k], TrailingPunctuation) : k \in 1..Len(matches)}
    IN  {u \in cleaned : u # << >>}

\* ------------------------------------------------------ _fetch_url_content

\* max_retries, the default of _fetch_url_content's parameter
max_retries == 3

UrlA == <<"h","t","t","p",":","/","/","a">>

UrlB == <<"h","t","t","p",":","/","/","b">>

URLs == {UrlA, UrlB}

\* The body of the page behind each URL: the page of UrlA links to UrlB, the
\* page of UrlB is longer than fetch_limit.
page_html(url) ==
    IF url = UrlA THEN <<"<","p",">","s","e","e"," "," ","h","t","t","p",":","/","/","b","<","/","p",">","\n">> ELSE <<"<","b",">","t","h","e","<","/","b",">"," ","d","o","g"," ","r","a","n"," ","f","a","r">>

\* re.sub(r'<[^>]+>', '', s)
RECURSIVE strip_tags_from(_, _)
strip_tags_from(s, i) ==
    IF i > Len(s) THEN << >>
    ELSE LET closes == {j \in (i + 1)..Len(s) : s[j] = ">"}
         IN  IF s[i] = "<" /\ closes # {} /\ SetMin(closes) >= i + 2
             THEN strip_tags_from(s, SetMin(closes) + 1)
             ELSE << s[i] >> \o strip_tags_from(s, i + 1)

strip_tags(s) == strip_tags_from(s, 1)

\* What BeautifulSoup's get_text() yields for a page that holds no script
\* and no style element: its text without the tags.
page_text(url) == strip_tags(page_html(url))

\* text.splitlines()
RECURSIVE splitlines_from(_, _)
splitlines_from(s, i) ==
    IF i > Len(s) THEN << >>
    ELSE LET stops == {j \in i..Len(s) : s[j] = "\n"}
             end   == IF stops = {} THEN Len(s) + 1 ELSE SetMin(stops)
         IN  << SubSeq(s, i, end - 1) >> \o splitlines_from(s, end + 1)

splitlines(s) == splitlines_from(s, 1)

\* s.split(sep) for a non-empty separator
RECURSIVE split_sep_from(_, _, _)
split_sep_from(s, sep, i) ==
    LET hits == {j \in i..(Len(s) - Len(sep) + 1) : SubSeq(s, j, j + Len(sep) - 1) = sep}
    IN  IF hits = {} THEN << SubSeq(s, i, Len(s)) >>
        ELSE << SubSeq(s, i, SetMin(hits) - 1) >>
                 \o split_sep_from(s, sep, SetMin(hits) + Len(sep))

split_sep(s, sep) == split_sep_from(s, sep, 1)

RECURSIVE flatten(_)
flatten(seqs) == IF seqs = << >> THEN << >> ELSE Head(seqs) \o flatten(Tail(seqs))

IsNonEmptyStr(s) == s # << >>

\* The clean-up of the page text: strip every line, split it at double
\* spaces, strip every phrase, join the non-empty phrases with one space.
clean_text(text) ==
    LET raw    == splitlines(text)
        lines  == [k \in 1..Len(raw) |-> strip(raw[k])]
        perline == [k \in 1..Len(lines) |->
                      LET ph == split_sep(lines[k], <<" "," ">>)
                      IN  [p \in 1..Len(ph) |-> strip(ph[p])]]
        chunks == flatten(perline)
    IN  join(<<" ">>, SelectSeq(chunks, IsNonEmptyStr))

\* if len(text) > 10000: text = text[:10000] + "... [Content truncated]"
truncate_text(text) ==
    IF Len(text) > fetch_limit
    THEN Slice(text, 0, fetch_limit) \o <<".",".","."," ","[","C","o","n","t","e","n","t"," ","t","r","u","n","c","a","t","e","d","]">>
    ELSE text

\* Optional[str]
None == [some |-> FALSE, text |-> << >>]

Some(text) == [some |-> TRUE, text |-> text]

\* bool(x) of an Optional[str]
truthy(opt) == opt.some /\ opt.text # << >>

\* One requests.get attempt answers ("ok"), raises a
\* requests.exceptions.RequestException ("request_error"), or raises another
\* exception ("error").
\* The outcomes of the attempts of one _fetch_url_content call: the page
\* answers at attempt n after request errors, or never answers, or attempt n
\* raises another exception.  The loop ends at the first attempt that is not
\* a request_error, so the outcomes after it are never read.
answers_at(n) == [i \in 1..max_retries |-> IF i = n THEN "ok" ELSE "request_error"]

never_answers == [i \in 1..max_retries |-> "request_error"]

breaks_at(n) == [i \in 1..max_retries |-> IF i = n THEN "error" ELSE "request_error"]

NetBehaviours == {answers_at(1), answers_at(max_retries), never_answers, breaks_at(1)}

\* self.fetched_urls, a dict: the sequence of its (url, text) items in
\* insertion order.
cache_has(cache, url) == \E k \in 1..Len(cache) : cache[k][1] = url

cache_get(cache, url) == cache[CHOOSE k \in 1..Len(cache) : cache[k][1] = url][2]

cache_not_put(cache, url, text) == cache

\* self.fetched_urls[url] = text
cache_put(cache, url, text) ==
    IF cache_has(cache, url)
    THEN [k \in 1..Len(cache) |-> IF cache[k][1] = url THEN << url, text >> ELSE cache[k]]
    ELSE Append(cache, << url, text >>)

\* The return of an attempt that got the page: its text, cached
page_fetched(cache, url, text, attempts, sleeps) ==
    [ret |-> Some(text), cache |-> cache_put(cache, url, text),
     attempts |-> attempts, sleeps |-> sleeps]

\* The body of `for attempt in range(max_retries)`, from attempt on.
RECURSIVE fetch_attempt(_, _, _, _, _)
fetch_attempt(cache, url, b, attempt, sleeps) ==
    IF attempt >= max_retries
    THEN [ret |-> None, cache |-> cache, attempts |-> attempt, sleeps |-> sleeps]
    ELSE IF b[attempt + 1] = "ok"
    THEN page_fetched(cache, url, truncate_text(clean_text(page_text(url))), attempt + 1, sleeps)
    ELSE IF b[attempt + 1] = "request_error"
    THEN IF attempt < max_retries - 1
         THEN fetch_attempt(cache, url, b, attempt + 1, Append(sleeps, 2 ^ attempt))
         ELSE [ret |-> None, cache |-> cache, attempts |-> attempt + 1, sleeps |-> sleeps]
    ELSE [ret |-> None, cache |-> cache, attempts |-> attempt + 1, sleeps |-> sleeps]

\* _fetch_url_content(url): the returned text or None, the cache after the
\* call, the network attempts made and the sleeps taken.
fetch_url_content(cache, url, b) ==
    IF cache_has(cache, url)
    THEN [ret |-> Some(cache_get(cache, url)), cache |-> cache,
          attempts |-> 0, sleeps |-> << >>]
    ELSE fetch_attempt(cache, url, b, 0, << >>)

\* -------------------------------------------------- _process_document_links

\* A Python set is iterated in an order the program does not choose: ord is
\* a sequence holding every URL once, and a set is iterated in that order.
Orders == {o \in [1..Cardinality(URLs) -> URLs] : \A u \in URLs : \E k \in DOMAIN o : o[k] = u}

in_order(S, ord) == SelectSeq(ord, LAMBDA u : u \in S)

\* web_app_with_links.py: one pass of the loop `for url in urls` of
\* _process_document_links, f being what _fetch_url_content(url) gave
links_fetched(acc, url, f) ==
    [cache |-> f.cache,
     linked_content |-> IF truthy(f.ret)
                        THEN Append(acc.linked_content,
                                    <<"\n","\n","[","C","o","n","t","e","n","t"," ","f","r","o","m",":"," ">> \o url \o <<"]","\n">> \o f.ret.text)
                        ELSE acc.linked_content]

RECURSIVE links_fetch_urls(_, _, _, _)
links_fetch_urls(acc, order, net, k) ==
    IF k > Len(order) THEN acc
    ELSE links_fetch_urls(
             links_fetched(acc, order[k],
                           fetch_url_content(acc.cache, order[k], net[order[k]])),
             order, net, k + 1)

\* The enhanced content, r being what the loop over the URLs left
links_enhanced(content, r) ==
    [content |-> IF r.linked_content # << >>
                 THEN content \o <<"\n","\n">> \o join(<<"\n">>, r.linked_content)
                 ELSE content,
     cache |-> r.cache, raised |-> FALSE]

links_linked(content, cache, urls, ord, net) ==
    IF urls = {} THEN [content |-> content, cache |-> cache, raised |-> FALSE]
    ELSE links_enhanced(content,
             links_fetch_urls([cache |-> cache, linked_content |-> << >>],
                              in_order(urls, ord), net, 1))

\* web_app_with_links.py: _process_document_links(content, title)
links_process_document_links(content, cache, ord, net) ==
    links_linked(content, cache, extract_urls_from_text(content), ord, net)

\* max_depth, the default of add_document's parameter in web_app_hr_bot.py
max_depth == 2

\* web_app_hr_bot.py: what a fetch f of url leaves: the text cached and
\* appended under the label, or nothing when f gave None
hr_fetched(st, url, f, label) ==
    IF truthy(f.ret)
    THEN [st EXCEPT !.cache = cache_put(f.cache, url, f.ret.text),
                    !.content = @ \o <<"\n","\n","[","C","o","n","t","e","n","t"," ","f","r","o","m"," ">> \o url \o label \o f.ret.text]
    ELSE [st EXCEPT !.cache = f.cache]

\* web_app_hr_bot.py: the loop over the document's own URLs (depth 1)
RECURSIVE hr_depth1(_, _, _, _)
hr_depth1(st, order, net, k) ==
    IF k > Len(order) THEN st
    ELSE hr_depth1(IF cache_has(st.cache, order[k]) THEN st
                   ELSE hr_fetched(st, order[k],
                            fetch_url_content(st.cache, order[k], net[order[k]]),
                            <<"]",":","\n">>),
                   order, net, k + 1)

\* web_app_hr_bot.py: the loop `for nested_url in nested_urls` (depth 2)
RECURSIVE hr_nested(_, _, _, _, _)
hr_nested(st, urls, order, net, k) ==
    IF k > Len(order) THEN st
    ELSE hr_nested(IF cache_has(st.cache, order[k]) \/ order[k] \in urls THEN st
                   ELSE hr_fetched(st, order[k],
                            fetch_url_content(st.cache, order[k], net[order[k]]),
                            <<" ","(","d","e","p","t","h"," ","2",")","]",":","\n">>),
                   urls, order, net, k + 1)

\* web_app_hr_bot.py: the loop `for url, fetched_content in
\* self.fetched_urls.items()`.  The dict iterator was created over n0 items;
\* each step first compares the dict's size with n0 and raises RuntimeError
\* ("dictionary changed size during iteration") when the body has inserted.
RECURSIVE hr_depth2(_, _, _, _, _, _)
hr_depth2(st, urls, ord, net, n0, k) ==
    IF Len(st.cache) # n0 THEN [st EXCEPT !.raised = TRUE]
    ELSE IF k > n0 THEN st
    ELSE hr_depth2(hr_nested(st, urls,
                             in_order(extract_urls_from_text(st.cache[k][2]), ord),
                             net, 1),
                   urls, ord, net, n0, k + 1)

\* The part `if max_depth > 1 and self.fetched_urls`, d1 being what depth 1 left
hr_nested_links(d1, urls, ord, net) ==
    IF max_depth > 1 /\ d1.cache # << >>
    THEN hr_depth2(d1, urls, ord, net, Len(d1.cache), 1)
    ELSE d1

hr_links(content, cache, urls, ord, net) ==
    hr_nested_links(hr_depth1([content |-> content, cache |-> cache, raised |-> FALSE],
                              in_order(urls, ord), net, 1),
                    urls, ord, net)

\* web_app_hr_bot.py: _process_document_links(content, title, max_depth)
hr_process_document_links(content, cache, ord, net) ==
    hr_links(content, cache, extract_urls_from_text(content), ord, net)

\* ---------------------------------------------------- _find_relevant_chunks

\* top_k, the default of _find_relevant_chunks's parameter
top_k_default == 5

\* The score as the number of words of the chunk, over the same denominator
score_by_words(query_words, chunk) ==
    [num |-> Cardinality(set(split(lower(chunk)))),
     den |-> Max(Cardinality(query_words), 1)]

\* score = overlap / max(len(query_words), 1), kept as a fraction
score_of(query_words, chunk) ==
    LET chunk_words == set(split(lower(chunk)))
    IN  [num |-> Cardinality(query_words \cap chunk_words),
         den |-> Max(Cardinality(query_words), 1)]

score_ge(a, b) == a.num * b.den >= b.num * a.den

\* if score >= 0
score_not_negative(a) == a.num >= 0

score_positive(a) == a.num > 0

\* The entries left in the order of the index
unsorted(entries) == entries

\* list.sort(key=lambda x: x[0], reverse=True): a stable sort, so entries of
\* equal score keep their order.  Entry k is inserted behind the entries
\* before it whose score is not lower.
RECURSIVE sort_by_score_desc(_)
sort_by_score_desc(entries) ==
    IF entries = << >> THEN << >>
    ELSE LET n    == Len(entries)
             init == sort_by_score_desc(SubSeq(entries, 1, n - 1))
             e    == entries[n]
             pos  == Cardinality({k \in 1..Len(init) : score_ge(init[k].score, e.score)})
         IN  SubSeq(init, 1, pos) \o << e >> \o SubSeq(init, pos + 1, Len(init))

\* The chunk returned without its citation tag
untagged(title, chunk) == chunk

\* f"[From: {title}]\n{chunk}"
tagged_chunk(title, chunk) == << "[From: " >> \o title \o << "]\n" >> \o chunk

\* _find_relevant_chunks(query, top_k) of the word-overlap variants
find_relevant_chunks(chunks, query, top_k) ==
    LET query_words  == set(split(lower(query)))
        chunk_scores == list([k \in 1..Len(chunks) |->
                            [score |-> score_of(query_words, chunks[k][1]),
                             chunk |-> chunks[k][1], title |-> chunks[k][2]]])
        sorted == sort_by_score_desc(chunk_scores)
        top    == SubSeq(sorted, 1, Min(top_k, Len(sorted)))
        kept   == SelectSeq(top, LAMBDA e : score_positive(e.score))
    IN  list([k \in 1..Len(kept) |-> tagged_chunk(kept[k].title, kept[k].chunk)])

\* ------------------------------------------------------------ ask_question

\* The generation service, model.generate_content(prompt): it answers with a
\* text, or raises an exception whose str() is the error text.
GenTexts == {<< "The cat sat on the mat." >>}

ErrorTexts == {<< "503 service unavailable" >>}

GenOutcomes ==
    {[ok |-> TRUE, text |-> t] : t \in GenTexts}
        \cup {[ok |-> FALSE, text |-> e] : e \in ErrorTexts}

\* The canned answers of document_qa.py, web_app.py, web_app_multi_model.py
\* and web_app_with_links.py (the same literals in the four files).
NoDocsMsg == << "I don't have any documents loaded yet. Please upload [...]" >>

NotFoundMsg == << "I couldn't find specific information about that in the documents [...]" >>

ErrorMsg(e) ==
    << "I apologize, but I encountered an error while processing your question: " >>
        \o e \o << ". Please try rephrasing your question [...]" >>

\* web_app_multi_model.py
NoKeyMsg == << "Google Gemini API key not configured. Please set GOOGLE_API_KEY [...]" >>

GeminiErrorMsg(e) == << "Gemini API Error: " >> \o e

\* web_app_hr_bot.py
HrGreetingMsg == << "**Hello! I'm your HR Assistant** I'm here to help you [...]" >>

HrNewEmployeeMsg == << "**Welcome!** Here are the key policies from our documents: [...]" >>

HrNoDocsMsg == << "**Hello! I'm your HR Assistant** I don't have any company documents loaded yet [...]" >>

HrNotFoundMsg == << "**I understand your question, and I want to help!** I couldn't find [...]" >>

HrErrorMsg == << "**I apologize for the technical difficulty!** I encountered an error [...]" >>

\* web_app_hr_bot_auth.py
AuthGreetingMsg(first_name) ==
    << "**Hello " >> \o first_name \o << "! I'm your HR Assistant** [...]" >>

AuthNotFoundMsg(first_name) ==
    << "**I understand your question, " >> \o first_name
        \o << ", but I don't have specific information about that [...]" >>

AuthErrorMsg(first_name) ==
    << "**I apologize, " >> \o first_name
        \o << ", but I encountered an error while processing your question.** [...]" >>

\* The prompts: persona text, context block, question, closing text.
qa_prompt(context, question) ==
    << "You are a knowledgeable and helpful assistant [...] DOCUMENTS TO ANALYZE:\n" >>
        \o context \o << "\n\nQUESTION: " >> \o question
        \o << "\n\nPlease provide a direct, precise, and to-the-point answer [...]" >>

formatted_prompt(context, question) ==
    << "You are a knowledgeable [...] FORMATTING REQUIREMENTS: [...] DOCUMENTS TO ANALYZE:\n" >>
        \o context \o << "\n\nQUESTION: " >> \o question
        \o << "\n\nPlease provide a clear, well-formatted response [...]" >>

hr_prompt(context, question) ==
    << "You are a professional, compassionate [...] **CONTEXT FROM COMPANY DOCUMENTS:**\n" >>
        \o context \o << "\n\n**EMPLOYEE QUESTION:** " >> \o question
        \o << "\n\n**HR ASSISTANT RESPONSE:**" >>

auth_prompt(context, question, first_name) ==
    << "You are a professional, empathetic HR Assistant. [...] **Document Context:**\n" >>
        \o context \o << "\n\n**Employee Question:** " >> \o question
        \o << "\n\n**Instructions:**\n1. **Address the employee by first name** (" >>
        \o first_name \o << ") in a warm, professional manner [...] named " >>
        \o first_name \o << ". Be supportive, accurate, and professional [...]" >>

greeting_keywords ==
    << <<"h","e","l","l","o">>, <<"h","i">>, <<"h","e","y">>, <<"g","o","o","d"," ","m","o","r","n","i","n","g">>, <<"g","o","o","d"," ","a","f","t","e","r","n","o","o","n">>,
       <<"g","o","o","d"," ","e","v","e","n","i","n","g">>, <<"h","o","w"," ","a","r","e"," ","y","o","u">>, <<"w","h","a","t","'","s"," ","u","p">>, <<"s","u","p">> >>

new_employee_keywords ==
    << <<"n","e","w"," ","e","m","p","l","o","y","e","e">>, <<"n","e","w"," ","h","i","r","e">>, <<"j","u","s","t"," ","s","t","a","r","t","e","d">>, <<"f","i","r","s","t"," ","d","a","y">>,
       <<"o","n","b","o","a","r","d","i","n","g">>, <<"c","r","i","t","i","c","a","l"," ","d","e","t","a","i","l","s">>, <<"i","m","p","o","r","t","a","n","t"," ","i","n","f","o","r","m","a","t","i","o","n">> >>

\* any(keyword in question_lower for keyword in keywords)
any_keyword_in(keywords, question_lower) ==
    \E k \in 1..Len(keywords) : contains(question_lower, keywords[k])

\* A faulty generate for the sensitivity test of C8_AnswerFromChunks: it
\* calls the service a second time with the same prompt.
generate_twice(prompt, gen, on_error, selected) ==
    [ret |-> IF gen.ok THEN gen.text ELSE on_error, prompts |-> << prompt, prompt >>,
     raised |-> FALSE, selected |-> selected, retrieved |-> TRUE]

\* The call of the generation service inside try/except: the value returned,
\* the prompts the service received, and the chunks retrieval had selected.
generate(prompt, gen, on_error, selected) ==
    [ret |-> IF gen.ok THEN gen.text ELSE on_error, prompts |-> << prompt >>,
     raised |-> FALSE, selected |-> selected, retrieved |-> TRUE]

\* A return before the generation service is called; selected is what
\* _find_relevant_chunks gives for the question on the store, retrieved is
\* whether the call got as far as calling it.
answer(msg, selected, retrieved) ==
    [ret |-> msg, prompts |-> << >>, raised |-> FALSE, selected |-> selected,
     retrieved |-> retrieved]

\* document_qa.py and web_app.py: ask_question(question)
qa_answer(documents, relevant_chunks, question, gen) ==
    IF documents = << >> THEN answer(NoDocsMsg, relevant_chunks, FALSE)
    ELSE IF relevant_chunks = << >> THEN answer(NotFoundMsg, relevant_chunks, TRUE)
    ELSE generate(qa_prompt(join(<<"\n","\n">>, relevant_chunks), question), gen,
                  ErrorMsg(gen.text), relevant_chunks)

qa_ask_question(documents, document_chunks, question, gen) ==
    qa_answer(documents,
              find_relevant_chunks(document_chunks, question, top_k_default),
              question, gen)

\* web_app_with_links.py: ask_question(question)
links_answer(documents, relevant_chunks, question, gen) ==
    IF documents = << >> THEN answer(NoDocsMsg, relevant_chunks, FALSE)
    ELSE IF relevant_chunks = << >> THEN answer(NotFoundMsg, relevant_chunks, TRUE)
    ELSE generate(formatted_prompt(join(<<"\n","\n">>, relevant_chunks), question), gen,
                  ErrorMsg(gen.text), relevant_chunks)

links_ask_question(documents, document_chunks, question, gen) ==
    links_answer(documents,
                 find_relevant_chunks(document_chunks, question, top_k_default),
                 question, gen)

\* web_app_multi_model.py: ask_question(question) and _call_gemini_api(prompt)
multi_answer(documents, relevant_chunks, google_api_key, question, gen) ==
    IF documents = << >> THEN answer(NoDocsMsg, relevant_chunks, FALSE)
    ELSE IF ~google_api_key THEN answer(NoKeyMsg, relevant_chunks, FALSE)
    ELSE IF relevant_chunks = << >> THEN answer(NotFoundMsg, relevant_chunks, TRUE)
    ELSE generate(formatted_prompt(join(<<"\n","\n">>, relevant_chunks), question), gen,
                  GeminiErrorMsg(gen.text), relevant_chunks)

multi_ask_question(documents, document_chunks, google_api_key, question, gen) ==
    multi_answer(documents,
                 find_relevant_chunks(document_chunks, question, top_k_default),
                 google_api_key, question, gen)

\* web_app_hr_bot.py: ask_question(question)
hr_answer(documents, relevant_chunks, question_lower, question, gen) ==
    IF any_keyword_in(greeting_keywords, question_lower)
    THEN answer(HrGreetingMsg, relevant_chunks, FALSE)
    ELSE IF any_keyword_in(new_employee_keywords, question_lower)
    THEN answer(HrNewEmployeeMsg, relevant_chunks, FALSE)
    ELSE IF documents = << >> THEN answer(HrNoDocsMsg, relevant_chunks, FALSE)
    ELSE IF relevant_chunks = << >> THEN answer(HrNotFoundMsg, relevant_chunks, TRUE)
    ELSE generate(hr_prompt(join(<<"\n","\n">>, relevant_chunks), question), gen,
                  HrErrorMsg, relevant_chunks)

hr_ask_question(documents, document_chunks, question, gen) ==
    hr_answer(documents,
              find_relevant_chunks(document_chunks, question, top_k_default),
              strip(lower(question)), question, gen)

\* ---------------------------------------------------------- the chunk store

\* {"title": title, "content": content, "chunks": chunks}
document(title, content, chunks) ==
    [title |-> title, content |-> content, chunks |-> chunks]

\* [(chunk, title) for chunk in chunks]
index_entries(chunks, title) == list([k \in 1..Len(chunks) |-> << chunks[k], title >>])

\* The outcome of a store operation: the store after it, whether it raised,
\* and the removal outcome ("removed", "not_found" or "" for other operations).
store_outcome(documents, document_chunks, cache, raised, outcome) ==
    [documents |-> documents, document_chunks |-> document_chunks,
     cache |-> cache, raised |-> raised, outcome |-> outcome]

\* add_document with the new entries put in front of the index
prepended(documents, document_chunks, cache, title, content, chunks) ==
    store_outcome(Append(documents, document(title, content, chunks)),
                  index_entries(chunks, title) \o document_chunks,
                  cache, FALSE, "")

\* self.documents.append(document) and the loop appending (chunk, title)
appended(documents, document_chunks, cache, title, content, chunks) ==
    store_outcome(Append(documents, document(title, content, chunks)),
                  document_chunks \o index_entries(chunks, title),
                  cache, FALSE, "")

\* add_document after _process_document_links gave p (or raised)
added(documents, document_chunks, title, p) ==
    IF p.raised THEN store_outcome(documents, document_chunks, p.cache, TRUE, "")
    ELSE appended(documents, document_chunks, p.cache, title, p.content,
                  chunk_text(p.content))

\* document_qa.py, web_app.py, web_app_multi_model.py: add_document
qa_add_document(documents, document_chunks, cache, content, title) ==
    appended(documents, document_chunks, cache, title, content, chunk_text(content))

\* web_app_with_links.py: add_document
links_add_document(documents, document_chunks, cache, content, title, ord, net) ==
    added(documents, document_chunks, title,
          links_process_document_links(content, cache, ord, net))

\* web_app_hr_bot.py: add_document
hr_add_document(documents, document_chunks, cache, content, title, ord, net) ==
    added(documents, document_chunks, title,
          hr_process_document_links(content, cache, ord, net))

\* The list without its element at 1-based position k (list.pop, list.remove)
without(seq, k) == SubSeq(seq, 1, k - 1) \o SubSeq(seq, k + 1, Len(seq))

\* [(chunk, doc_title) for chunk, doc_title in self.document_chunks
\*  if doc_title != title]
chunks_not_of(document_chunks, title) ==
    SelectSeq(document_chunks, LAMBDA e : e[2] # title)

\* remove_document(title) of web_app_multi_model.py, web_app_with_links.py and
\* web_app_hr_bot.py: the first document of that title is taken out of the
\* list, and every index entry of that title is dropped.
remove_document(documents, document_chunks, cache, title) ==
    LET hits == {k \in 1..Len(documents) : documents[k].title = title}
    IN  IF hits = {}
        THEN store_outcome(documents, document_chunks, cache, FALSE, "not_found")
        ELSE store_outcome(without(documents, SetMin(hits)),
                           chunks_not_of(document_chunks, title),
                           cache, FALSE, "removed")

\* f"Document '{title}' removed successfully" / f"Document '{title}' not found"
remove_message(title, outcome) ==
    << "Document '" >> \o title
        \o (IF outcome = "removed" THEN << "' removed successfully" >> ELSE << "' not found" >>)

\* list_documents(): one summary per document
list_documents(documents) ==
    [k \in 1..Len(documents) |->
        [title |-> documents[k].title,
         content_length |-> Len(documents[k].content),
         chunks |-> Len(documents[k].chunks)]]

\* ------------------------------------------------- web_app_hr_bot_auth.py

UserA == <<"a","l","@","x">>

UserB == <<"b","o","@","x">>

Users == {UserA, UserB}

\* session.get('user_name'): UserA signed in with Google, which stores the
\* first name; UserB signed in with an e-mailed code, which stores none.
session_user_name(user_email) == IF user_email = UserA THEN Some(<<"A","l">>) ELSE None

\* user_documents.get(user_email): absent until the index page or an upload
\* creates {"documents": [], "chunks": [], "embeddings": []}
NoStore == [present |-> FALSE, documents |-> << >>, chunks |-> << >>, embeddings |-> << >>]

EmptyStore == [present |-> TRUE, documents |-> << >>, chunks |-> << >>, embeddings |-> << >>]

\* SentenceTransformer.encode(text), an external model: stood in for by the
\* set of lower-cased tokens of the text, with the size of the intersection
\* as the dot product of two embeddings.
embed(text) == set(split(lower(text)))

dot(a, b) == Cardinality(a \cap b)

\* set(re.findall(r'https?://[^\s<>"{}|\\^`\[\]]+', content))
auth_find_urls(content) == set(findall_from(content, 1, AuthUrlExcluded))

\* One requests.get(url, timeout=10) of add_document_from_file: no retry.
attempt_ok(net, url) == net[url][1] = "ok"

\* The loop `for url in urls` of add_document_from_file
RECURSIVE auth_fetch_urls(_, _, _, _, _)
auth_fetch_urls(order, net, k, fetched_content, fetched) ==
    IF k > Len(order) THEN [fetched_content |-> fetched_content, fetched |-> fetched]
    ELSE LET url == order[k]
             text_content == Slice(strip_tags(page_html(url)), 0, fetch_limit)
         IN  IF attempt_ok(net, url)
             THEN auth_fetch_urls(order, net, k + 1,
                      fetched_content \o <<"\n","\n","-","-","-"," ","C","o","n","t","e","n","t"," ","f","r","o","m"," ">> \o url
                          \o <<" ","-","-","-","\n">> \o text_content \o <<"\n">>,
                      cache_put(fetched, url, text_content))
             ELSE auth_fetch_urls(order, net, k + 1, fetched_content, fetched)

\* _create_chunks_and_embeddings: one chunk per non-blank paragraph
paragraph_chunks(content, title) ==
    LET paragraphs == split_sep(content, <<"\n","\n">>)
        ids == SelectSeq([i \in 1..Len(paragraphs) |-> i],
                         LAMBDA i : strip(paragraphs[i]) # << >>)
    IN  [k \in 1..Len(ids) |->
            [content |-> strip(paragraphs[ids[k]]), source |-> title,
             chunk_id |-> ids[k] - 1]]

\* add_document_from_file(file_path, title, user_email=user_email) for a text
\* file: read_ok is whether the file decodes as UTF-8, encode_ok whether
\* embedding_model.encode returns.
auth_add_document_from_file(store, fetched, content, title, ord, net, read_ok, encode_ok) ==
    LET urls     == auth_find_urls(content)
        f        == auth_fetch_urls(in_order(urls, ord), net, 1, << >>, fetched)
        enhanced == content \o f.fetched_content
        fetched2 == f.fetched
        base     == IF store.present THEN store ELSE EmptyStore
        with_doc == [base EXCEPT !.documents =
                        Append(@, [title |-> title, content |-> enhanced,
                                   content_length |-> Len(enhanced)])]
        chunks   == paragraph_chunks(enhanced, title)
    IN  IF ~read_ok
        THEN [store |-> store, fetched |-> fetched, raised |-> TRUE]
        ELSE IF ~encode_ok
        THEN [store |-> with_doc, fetched |-> fetched2, raised |-> TRUE]
        ELSE [store |-> [with_doc EXCEPT
                            !.chunks = @ \o chunks,
                            !.embeddings = @ \o [k \in 1..Len(chunks) |->
                                                    embed(chunks[k].content)]],
              fetched |-> fetched2, raised |-> FALSE]

\* The "documents" list of the routes' JSON: the chunk count of a document
\* is the number of the user's chunks whose source is its title.
auth_listing(store) ==
    [k \in 1..Len(store.documents) |->
        [title |-> store.documents[k].title,
         content_length |-> store.documents[k].content_length,
         chunks |-> Cardinality({c \in 1..Len(store.chunks) :
                                    store.chunks[c].source = store.documents[k].title})]]

auth_remove_chunks_only(store, title) ==
    [store EXCEPT
        !.documents = SelectSeq(@, LAMBDA d : d.title # title),
        !.chunks    = SelectSeq(@, LAMBDA c : c.source # title)]

\* The route /api/remove-document: every document and chunk of that title
\* is filtered out, with the embeddings of the dropped chunks.
auth_remove_document(store, title) ==
    LET keep == SelectSeq([i \in 1..Len(store.chunks) |-> i],
                          LAMBDA i : store.chunks[i].source # title)
    IN  [store EXCEPT
            !.documents  = SelectSeq(@, LAMBDA d : d.title # title),
            !.chunks     = [k \in 1..Len(keep) |-> store.chunks[keep[k]]],
            !.embeddings = [k \in 1..Len(keep) |-> store.embeddings[keep[k]]]]

\* np.argsort(similarities): the indices in ascending order of similarity
\* (equal similarities in index order).
RECURSIVE argsort_upto(_, _)
argsort_upto(values, n) ==
    IF n = 0 THEN << >>
    ELSE LET init == argsort_upto(values, n - 1)
             pos  == Cardinality({k \in 1..Len(init) : values[init[k]] <= values[n]})
         IN  SubSeq(init, 1, pos) \o << n >> \o SubSeq(init, pos + 1, Len(init))

argsort(values) == argsort_upto(values, Len(values))

reversed(seq) == [k \in 1..Len(seq) |-> seq[Len(seq) + 1 - k]]

\* _find_relevant_chunks(question, user_email, top_k): the chunks of the
\* top_k highest similarities, highest first, that exceed 0.1
auth_find_relevant_chunks(store, question, top_k) ==
    LET similarities == [k \in 1..Len(store.embeddings) |->
                            dot(store.embeddings[k], embed(question))]
        sorted       == argsort(similarities)
        top_indices  == reversed(SubSeq(sorted, Max(Len(sorted) - top_k, 0) + 1, Len(sorted)))
        kept         == SelectSeq(top_indices, LAMBDA i : 10 * similarities[i] > 1)
    IN  IF ~store.present \/ store.chunks = << >> THEN << >>
        ELSE [k \in 1..Len(kept) |-> store.chunks[kept[k]]]

\* user_name = user_email.split('@')[0] when the session holds no name;
\* first_name = its first word when it holds a space
first_name_of(user_email, user_name) ==
    LET name == IF truthy(user_name) THEN user_name.text
                ELSE split_sep(user_email, <<"@">>)[1]
    IN  IF \E i \in 1..Len(name) : name[i] = " " THEN split(name)[1] ELSE name

\* ask_question(question, user_email, user_name); encode_ok is whether
\* embedding_model.encode([question]) returns.
auth_answer(chunks_held, relevant_chunks, question_lower, question, first_name, gen, encode_ok) ==
    IF any_keyword_in(greeting_keywords, question_lower)
    THEN answer(AuthGreetingMsg(first_name), relevant_chunks, FALSE)
    ELSE IF chunks_held /\ ~encode_ok
    THEN [ret |-> << >>, prompts |-> << >>, raised |-> TRUE, selected |-> relevant_chunks,
          retrieved |-> FALSE]
    ELSE IF relevant_chunks = << >>
    THEN answer(AuthNotFoundMsg(first_name), relevant_chunks, TRUE)
    ELSE generate(auth_prompt(join(<<"\n","\n">>,
                                   list([k \in 1..Len(relevant_chunks) |->
                                       tagged_chunk(relevant_chunks[k].source,
                                                    relevant_chunks[k].content)])),
                              question, first_name),
                  gen, AuthErrorMsg(first_name), relevant_chunks)

auth_ask_question(store, question, user_email, user_name, gen, encode_ok) ==
    auth_answer(store.present /\ store.chunks # << >>,
                auth_find_relevant_chunks(store, question, top_k_default),
                strip(lower(question)), question,
                first_name_of(user_email, user_name), gen, encode_ok)

\* str(n) of a natural number
RECURSIVE str_int(_)
str_int(n) ==
    LET digit == << "0", "1", "2", "3", "4", "5", "6", "7", "8", "9" >>
    IN  IF n < 10 THEN << digit[n + 1] >>
        ELSE str_int(n \div 10) \o << digit[(n % 10) + 1] >>

\* ---------------------------------------------------------------- the corpus

\* The document of the spec's scenarios, one that links to a page, a blank one
DocCat == <<"T","h","e"," ","c","a","t"," ","s","a","t"," ","o","n"," ","t","h","e"," ","m","a","t","."," ","T","h","e"," ","d","o","g"," ","r","a","n"," ","i","n"," ","t","h","e"," ","p","a","r","k",".">>

DocLink == <<"s","e","e"," ","h","t","t","p",":","/","/","a"," ","o","k">>

DocBlank == <<" ","\n">>

Contents == {DocCat, DocLink, DocBlank}

Titles == {<< "Doc1" >>, << "Doc2" >>}

Questions == {<<"c","a","t"," ","m","a","t">>, <<"a","n","y","t","h","i","n","g">>, <<"z","e","b","r","a">>, <<"n","e","w"," ","h","i","r","e">>, <<"T","h","e"," ","D","o","g">>}

Nets == [URLs -> NetBehaviours]

\* web_app_hr_bot_auth.py makes one attempt per URL
AuthNets == [URLs -> {b \in NetBehaviours : \A i \in 2..max_retries : b[i] = "request_error"}]

\* The six files hold five different classes: web_app.py repeats document_qa.py
Variants == {"document_qa", "multi_model", "with_links", "hr_bot", "hr_bot_auth"}

\* -------------------------------------------------- add_document_from_file

\* A file on disk: whether the path exists, whether its name ends in .pdf,
\* whether it can be read (PyPDF2 parses it, or its bytes are UTF-8), the
\* texts extract_text() gives for the pages of a PDF, the text of a text file,
\* and what the bytes of a text file are when read as latin-1.  The PDFs of
\* the model carry no link annotation.
File(exists, pdf, decodes, pages, text, latin1) ==
    [exists |-> exists, pdf |-> pdf, decodes |-> decodes, pages |-> pages,
     text |-> text, latin1 |-> latin1]

\* content += page.extract_text() + "\n", page after page
RECURSIVE pdf_text(_)
pdf_text(pages) ==
    IF pages = << >> THEN << >>
    ELSE Head(pages) \o <<"\n">> \o pdf_text(Tail(pages))

\* web_app_hr_bot.py: if page_text: content += page_text + "\n"
RECURSIVE hr_pdf_text(_)
hr_pdf_text(pages) ==
    IF pages = << >> THEN << >>
    ELSE (IF Head(pages) # << >> THEN Head(pages) \o <<"\n">> ELSE << >>)
             \o hr_pdf_text(Tail(pages))

\* The text a reader that decodes UTF-8 only extracts from a readable file
extracted_text(file) == IF file.pdf THEN pdf_text(file.pages) ELSE file.text

\* Which ingestion error the file is, "" when it is none
ingestion_error(file) ==
    IF ~file.exists THEN "missing file"
    ELSE IF ~file.decodes THEN "unreadable encoding"
    ELSE IF strip(extracted_text(file)) = << >> THEN "empty extracted text"
    ELSE ""

\* document_qa.py: add_document_from_file(file_path, title).  Nothing is
\* raised; outcome is the error the method prints, "" when it prints none.
qa_add_document_from_file(documents, document_chunks, cache, file, title) ==
    IF ~file.exists
    THEN store_outcome(documents, document_chunks, cache, FALSE, "File not found")
    ELSE IF ~file.decodes
    THEN store_outcome(documents, document_chunks, cache, FALSE, "Error reading file")
    ELSE IF file.pdf /\ strip(pdf_text(file.pages)) = << >>
    THEN store_outcome(documents, document_chunks, cache, FALSE,
                       "PDF appears to be empty or contains no extractable text")
    ELSE qa_add_document(documents, document_chunks, cache, extracted_text(file), title)

\* web_app_hr_bot.py: add_document_from_file(file_path, title).  outcome is
\* the exception the method raises itself, "" when it reaches add_document.
hr_add_document_from_file(documents, document_chunks, cache, file, title, ord, net) ==
    IF ~file.exists
    THEN store_outcome(documents, document_chunks, cache, TRUE, "File not found")
    ELSE IF file.pdf /\ ~file.decodes
    THEN store_outcome(documents, document_chunks, cache, TRUE, "Error reading file")
    ELSE hr_add_document(documents, document_chunks, cache,
                         IF file.pdf THEN hr_pdf_text(file.pages)
                         ELSE IF file.decodes THEN file.text
                         ELSE file.latin1,
                         title, ord, net)

\* ---------------------------------------------------------- the state machine

VARIABLES
    variant,            \* which file's class is running
    google_api_key,     \* web_app_multi_model.py: whether GOOGLE_API_KEY is set
    documents,          \* self.documents
    document_chunks,    \* self.document_chunks
    fetched_urls,       \* self.fetched_urls
    user_documents,     \* web_app_hr_bot_auth.py: the global user_documents
    user_fetched_urls,  \* web_app_hr_bot_auth.py: the global user_fetched_urls
    otp_store,          \* web_app_hr_bot_auth.py: the global otp_store
    clock,              \* datetime.now(timezone.utc), in minutes
    session,            \* web_app_hr_bot_auth.py: each client's Flask session
    requests,           \* the requests in flight: where each one is, and its locals
    logins,             \* how often each OTP issued has logged a client in
    temp_files,         \* the files temp_<filename> of the working directory
    result              \* what the last call gave its caller

\* The state of the routes that run as interleaved requests
web == << otp_store, clock, session, requests, logins, temp_files >>

vars == << variant, google_api_key, documents, document_chunks, fetched_urls,
           user_documents, user_fetched_urls, web, result >>

\* The browsers whose requests the server handles at the same time
Clients == {"c1", "c2"}

\* otp_store.get(email): None, or the pair (otp, expiry); serial numbers the
\* OTPs in the order they were issued
NoOtp == [present |-> FALSE, otp |-> << >>, expiry |-> 0, serial |-> 0]

\* A session without user_email and logged_in
NoSession == [logged_in |-> FALSE, user_email |-> << >>]

\* A client with no request in flight
NoRequest ==
    [pc |-> "idle", email |-> << >>, otp |-> << >>, stored |-> NoOtp,
     filename |-> << >>, file |-> << >>, content |-> << >>, status |-> 0]

\* No file at a path
NoFile == [exists |-> FALSE, content |-> << >>]

\* The temporary paths a secured filename can give
Filenames == {<< "Doc1" >>}

\* The server before any request: no OTP issued, nobody logged in, no
\* temporary file
NoRequests ==
    /\ otp_store = [e \in Users |-> NoOtp]
    /\ clock = 0
    /\ session = [c \in Clients |-> NoSession]
    /\ requests = [c \in Clients |-> NoRequest]
    /\ logins = << >>
    /\ temp_files = [f \in Filenames |-> NoFile]

NoGen == [ok |-> TRUE, text |-> << >>]

NoUser == << >>

\* What a call gave its caller: the value returned (ret, and listing for a
\* list of summaries), the HTTP status of a route, the prompts the generation
\* service received and what it did (gen), whether the call raised, and the
\* removal outcome.
Result(op, user, arg, ret, status, listing, prompts, gen, raised, outcome) ==
    [op |-> op, user |-> user, arg |-> arg, ret |-> ret, status |-> status,
     listing |-> listing, prompts |-> prompts, gen |-> gen, raised |-> raised,
     outcome |-> outcome, selected |-> << >>, retrieved |-> FALSE]

\* What the generation service did in a call r, NoGen when r did not call it
called(r, gen) == IF r.prompts = << >> THEN NoGen ELSE gen

\* Which of its outcomes an ask_question call was in, by the store it ran on
\* and by what the generation service did when it was called.
ask_outcome(no_documents, no_chunks, r, gen) ==
    IF no_documents THEN "no_documents"
    ELSE IF no_chunks THEN "no_chunks"
    ELSE IF r.prompts # << >> /\ ~gen.ok THEN "generation_failure"
    ELSE IF r.prompts # << >> THEN "answered"
    ELSE "other"

Unanswered == {"no_documents", "no_chunks", "generation_failure"}

ClassVariants == Variants \ {"hr_bot_auth"}

Init ==
    /\ variant \in Variants
    /\ google_api_key \in (IF variant = "multi_model" THEN BOOLEAN ELSE {FALSE})
    /\ documents = << >>
    /\ document_chunks = << >>
    /\ fetched_urls = << >>
    /\ user_documents = [u \in Users |-> NoStore]
    /\ user_fetched_urls = [u \in Users |-> << >>]
    /\ NoRequests
    /\ result = Result("init", NoUser, << >>, << >>, 0, << >>, << >>, NoGen, FALSE, "")

\* The store and the result after a call that gave store_outcome r
Stored(op, title, r) ==
    /\ documents' = r.documents
    /\ document_chunks' = r.document_chunks
    /\ fetched_urls' = r.cache
    /\ result' = Result(op, NoUser, title,
                        IF op = "remove" THEN remove_message(title, r.outcome) ELSE << >>,
                        0, << >>, << >>, NoGen, r.raised, r.outcome)
    /\ UNCHANGED << web, variant, google_api_key, user_documents, user_fetched_urls >>

\* document_qa.py, web_app.py, web_app_multi_model.py: add_document(content, title)
AddDocument ==
    /\ variant \in {"document_qa", "multi_model"}
    /\ Len(documents) < MaxDocs
    /\ \E content \in Contents, title \in Titles :
          Stored("add", title,
                 qa_add_document(documents, document_chunks, fetched_urls, content, title))

\* web_app_with_links.py: add_document(content, title)
LinksAddDocument ==
    /\ variant = "with_links"
    /\ Len(documents) < MaxDocs
    /\ \E content \in Contents, title \in Titles, ord \in Orders, net \in Nets :
          Stored("add", title,
                 links_add_document(documents, document_chunks, fetched_urls,
                                    content, title, ord, net))

\* web_app_hr_bot.py: add_document(content, title)
HrAddDocument ==
    /\ variant = "hr_bot"
    /\ Len(documents) < MaxDocs
    /\ \E content \in Contents, title \in Titles, ord \in Orders, net \in Nets :
          Stored("add", title,
                 hr_add_document(documents, document_chunks, fetched_urls,
                                 content, title, ord, net))

\* remove_document(title)
RemoveDocument ==
    /\ variant \in {"multi_model", "with_links", "hr_bot"}
    /\ \E title \in Titles :
          Stored("remove", title,
                 remove_document(documents, document_chunks, fetched_urls, title))

\* document_qa.py: clear_documents()
ClearDocuments ==
    /\ variant = "document_qa"
    /\ Stored("clear", << >>, store_outcome(<< >>, << >>, fetched_urls, FALSE, ""))

\* list_documents()
ListDocuments ==
    /\ variant \in ClassVariants
    /\ result' = Result("list", NoUser, << >>, << >>, 0, list_documents(documents),
                        << >>, NoGen, FALSE, "")
    /\ UNCHANGED << web, variant, google_api_key, documents, document_chunks, fetched_urls,
                    user_documents, user_fetched_urls >>

\* ask_question(question) of the class the variant runs
class_ask_question(docs, chunks, question, gen) ==
    IF variant = "document_qa" THEN qa_ask_question(docs, chunks, question, gen)
    ELSE IF variant = "multi_model"
    THEN multi_ask_question(docs, chunks, google_api_key, question, gen)
    ELSE IF variant = "with_links" THEN links_ask_question(docs, chunks, question, gen)
    ELSE hr_ask_question(docs, chunks, question, gen)

\* The route /api/chat answers a raising ask_question with this text and 500
ChatErrorMsg ==
    << "I apologize, but I encountered an error while processing your question. Please try again." >>

\* The result of an ask_question call that gave r (route: through /api/chat)
Asked(user, question, gen, no_documents, r, route) ==
    result' = [Result("ask", user, question,
                      IF r.raised THEN ChatErrorMsg ELSE r.ret,
                      IF ~route THEN 0 ELSE IF r.raised THEN 500 ELSE 200,
                      << >>, r.prompts, called(r, gen), r.raised,
                      ask_outcome(no_documents, r.selected = << >>, r, gen))
                  EXCEPT !.selected = r.selected, !.retrieved = r.retrieved]

AskQuestionReordering ==
    /\ variant \in ClassVariants
    /\ \E question \in Questions, gen \in GenOutcomes :
          Asked(NoUser, question, gen, documents = << >>,
                class_ask_question(documents, document_chunks, question, gen), FALSE)
    /\ document_chunks' = [k \in 1..Len(document_chunks) |->
                              document_chunks[Len(document_chunks) + 1 - k]]
    /\ UNCHANGED << web, variant, google_api_key, documents, fetched_urls,
                    user_documents, user_fetched_urls >>


AskQuestion ==
    /\ variant \in ClassVariants
    /\ \E question \in Questions, gen \in GenOutcomes :
          Asked(NoUser, question, gen, documents = << >>,
                class_ask_question(documents, document_chunks, question, gen), FALSE)
    /\ UNCHANGED << web, variant, google_api_key, documents, document_chunks, fetched_urls,
                    user_documents, user_fetched_urls >>

\* The documents of every user together
total_documents ==
    LET RECURSIVE total(_)
        total(S) == IF S = {} THEN 0
                    ELSE LET u == CHOOSE v \in S : TRUE
                         IN  Len(user_documents[u].documents) + total(S \ {u})
    IN  total(Users)

AuthFrame == UNCHANGED << web, variant, google_api_key, documents, document_chunks, fetched_urls >>

\* The route / for a signed-in user
AuthIndex ==
    /\ variant = "hr_bot_auth"
    /\ \E user_email \in Users :
          /\ user_documents' = [user_documents EXCEPT ![user_email] =
                                   IF @.present THEN @ ELSE EmptyStore]
          /\ result' = Result("index", user_email, << >>, << >>, 200, << >>, << >>,
                              NoGen, FALSE, "")
    /\ UNCHANGED user_fetched_urls
    /\ AuthFrame

uploaded_for_all(user_email, title, urls_found, r) ==
    /\ user_documents' = [u \in Users |-> r.store]
    /\ user_fetched_urls' = [u \in Users |-> r.fetched]
    /\ result' = Result("add", user_email, title, << >>, 200, auth_listing(r.store),
                        << >>, NoGen, r.raised, "")

\* The JSON upload_document() answers with once add_document_from_file gave r
Uploaded(user_email, title, urls_found, r) ==
    /\ user_documents' = [user_documents EXCEPT ![user_email] = r.store]
    /\ user_fetched_urls' = [user_fetched_urls EXCEPT ![user_email] = r.fetched]
    /\ result' =
          IF r.raised
          THEN Result("add", user_email, title,
                      << "Error processing document: ", "[str(e)]" >>,
                      500, << >>, << >>, NoGen, TRUE, "")
          ELSE Result("add", user_email, title,
                      << "Added document: " >> \o title \o << " (" >>
                          \o str_int(r.store.documents[Len(r.store.documents)].content_length)
                          \o << " characters, " >> \o str_int(urls_found)
                          \o << " URLs found)" >>,
                      200, auth_listing(r.store), << >>, NoGen, FALSE, "")

\* The route /api/upload: upload_document()
AuthUpload ==
    /\ variant = "hr_bot_auth"
    /\ total_documents < MaxUploads
    /\ \E user_email \in Users, title \in Titles :
          \/ Uploaded(user_email, title, 0,
                      auth_add_document_from_file(user_documents[user_email],
                          user_fetched_urls[user_email], << >>, title,
                          CHOOSE ord \in Orders : TRUE, CHOOSE net \in AuthNets : TRUE,
                          FALSE, TRUE))
          \/ \E content \in Contents, ord \in Orders, net \in AuthNets,
                encode_ok \in BOOLEAN :
                Uploaded(user_email, title, Cardinality(auth_find_urls(content)),
                         auth_add_document_from_file(user_documents[user_email],
                             user_fetched_urls[user_email], content, title, ord, net,
                             TRUE, encode_ok))
    /\ AuthFrame

\* The JSON remove_document() answers with, after being what the filters leave
Removed(user_email, title, present, after) ==
    IF present
    THEN /\ user_documents' = [user_documents EXCEPT ![user_email] = after]
         /\ result' = Result("remove", user_email, title,
                             << "Removed document: " >> \o title, 200,
                             auth_listing(after), << >>, NoGen, FALSE, "removed")
    ELSE /\ UNCHANGED user_documents
         /\ result' = Result("remove", user_email, title,
                             << "No documents found" >>, 404,
                             << >>, << >>, NoGen, FALSE, "not_found")

\* The route /api/remove-document: remove_document()
AuthRemove ==
    /\ variant = "hr_bot_auth"
    /\ \E user_email \in Users, title \in Titles :
          Removed(user_email, title, user_documents[user_email].present,
                  auth_remove_document(user_documents[user_email], title))
    /\ UNCHANGED user_fetched_urls
    /\ AuthFrame

\* The route /api/documents: get_documents()
AuthGetDocuments ==
    /\ variant = "hr_bot_auth"
    /\ \E user_email \in Users :
          result' = Result("list", user_email, << >>, << >>, 200,
                           IF user_documents[user_email].present
                           THEN auth_listing(user_documents[user_email]) ELSE << >>,
                           << >>, NoGen, FALSE, "")
    /\ UNCHANGED << user_documents, user_fetched_urls >>
    /\ AuthFrame

\* The route /api/chat: chat(), which calls ask_question
AuthChat ==
    /\ variant = "hr_bot_auth"
    /\ \E user_email \in Users, question \in Questions, gen \in GenOutcomes,
          encode_ok \in BOOLEAN :
          Asked(user_email, question, gen, user_documents[user_email].documents = << >>,
                auth_ask_question(user_documents[user_email], question, user_email,
                                  session_user_name(user_email), gen, encode_ok),
                TRUE)
    /\ UNCHANGED << user_documents, user_fetched_urls >>
    /\ AuthFrame

Next ==
    \/ AddDocument
    \/ LinksAddDocument
    \/ HrAddDocument
    \/ RemoveDocument
    \/ ClearDocuments
    \/ ListDocuments
    \/ AskQuestion
    \/ AuthIndex
    \/ AuthUpload
    \/ AuthRemove
    \/ AuthGetDocuments
    \/ AuthChat

Spec == Init /\ [][Next]_vars

\* ------------------------------------------------------------- properties

Range(seq) == {seq[k] : k \in 1..Len(seq)}

\* The titles of the documents the class, or the user of the route, holds
stored_titles(user) ==
    IF variant \in ClassVariants THEN {documents[k].title : k \in 1..Len(documents)}
    ELSE {user_documents[user].documents[k].title :
             k \in 1..Len(user_documents[user].documents)}

\* The number of index entries whose source title is title
index_count(title) ==
    Cardinality({i \in 1..Len(document_chunks) : document_chunks[i][2] = title})

\* C1: after any sequence of add_document and remove_document calls, titles
\* repeating or not, document_chunks is the concatenation, in document order,
\* of every stored document's chunks, each paired with the document's title.
C1_IndexConsistency ==
    variant \in ClassVariants =>
        document_chunks =
            flatten(list([k \in 1..Len(documents) |->
                             index_entries(documents[k].chunks, documents[k].title)]))

\* C2: for every stored document D the index holds exactly len(D.chunks)
\* entries whose source title is D.title, and the chunk count reported for D
\* is that number.
C2_ChunkCounts ==
    IF variant \in ClassVariants
    THEN \A k \in 1..Len(documents) :
            /\ index_count(documents[k].title) = Len(documents[k].chunks)
            /\ list_documents(documents)[k].chunks = index_count(documents[k].title)
    ELSE \A u \in Users : \A k \in 1..Len(user_documents[u].documents) :
            auth_listing(user_documents[u])[k].chunks =
                Cardinality({c \in 1..Len(user_documents[u].chunks) :
                    user_documents[u].chunks[c].source = user_documents[u].documents[k].title})

\* C3: remove_document(title) for a title no stored document has reports
\* "not found" (not success, and no exception), and leaves the document list,
\* the chunk index and the list_documents summaries as they were.
C3_RemoveUnmatched ==
    [][(result'.op = "remove" /\ result'.arg \notin stored_titles(result'.user))
          => /\ result'.outcome = "not_found"
             /\ ~result'.raised
             /\ documents' = documents
             /\ document_chunks' = document_chunks
             /\ user_documents' = user_documents
             /\ list_documents(documents') = list_documents(documents)]_vars

\* The first name ask_question addresses the caller of the last call by
caller_first_name == first_name_of(result.user, session_user_name(result.user))

\* What ask_question returns where it finds that no document is held
no_documents_message ==
    IF variant = "hr_bot" THEN HrNoDocsMsg
    ELSE IF variant = "hr_bot_auth" THEN AuthNotFoundMsg(caller_first_name)
    ELSE NoDocsMsg

\* What ask_question returns where it finds that retrieval selected no chunk
not_found_message ==
    IF variant = "hr_bot" THEN HrNotFoundMsg
    ELSE IF variant = "hr_bot_auth" THEN AuthNotFoundMsg(caller_first_name)
    ELSE NotFoundMsg

\* C4: ask_question on a store with no documents returns the fixed "no
\* documents" message whatever the question is, and does not call the
\* generation service.
C4_NoDocuments ==
    (result.op = "ask" /\ result.outcome = "no_documents") =>
        /\ result.ret = no_documents_message
        /\ result.prompts = << >>

\* C5: with at least one document stored and no chunk sharing a token with
\* the question, ask_question returns the fixed "couldn't find information"
\* message and does not call the generation service.
C5_NoRelevantChunks ==
    (result.op = "ask" /\ result.outcome = "no_chunks") =>
        /\ result.ret = not_found_message
        /\ result.prompts = << >>

\* C6: when the generation service raises on the call ask_question makes,
\* ask_question does not raise: it returns an apology that contains the text
\* of the error.
C6_GenerationFailure ==
    (result.op = "ask" /\ result.outcome = "generation_failure") =>
        /\ ~result.raised
        /\ contains(result.ret, result.gen.text)

\* ask_question asked once more by the caller of the last call, on the store
\* as it is or on a store without documents: what it returns and which
\* outcome that is.
ask_again(empty, question, gen) ==
    IF variant \in ClassVariants
    THEN LET docs   == IF empty THEN << >> ELSE documents
             chunks == IF empty THEN << >> ELSE document_chunks
             r      == class_ask_question(docs, chunks, question, gen)
         IN  [ret |-> r.ret,
              outcome |-> ask_outcome(docs = << >>, r.selected = << >>, r, gen)]
    ELSE LET store == IF empty THEN EmptyStore ELSE user_documents[result.user]
             r     == auth_ask_question(store, question, result.user,
                                        session_user_name(result.user), gen, TRUE)
         IN  [ret |-> r.ret,
              outcome |-> ask_outcome(store.documents = << >>, r.selected = << >>, r, gen)]

\* C7: the outcomes no documents, no relevant chunks and generation failure
\* each have one message, the same on every call, and the three messages
\* differ from one another: two calls return the same message exactly if
\* they are in the same of the three outcomes.
C7_DistinctMessages ==
    (result.op = "ask" /\ result.outcome \in Unanswered /\ ~result.raised) =>
        \A empty \in BOOLEAN, question \in Questions, gen \in GenOutcomes :
            LET again == ask_again(empty, question, gen)
            IN  again.outcome \in Unanswered =>
                    ((again.outcome = result.outcome) <=> (again.ret = result.ret))

\* The chunks retrieval selected in the last call, each with its source tag
selected_tagged ==
    IF variant \in ClassVariants THEN result.selected
    ELSE [k \in 1..Len(result.selected) |->
             tagged_chunk(result.selected[k].source, result.selected[k].content)]

\* The chunks of the store the last call ran on, each with its source tag
stored_tagged ==
    IF variant \in ClassVariants
    THEN {tagged_chunk(e[2], e[1]) : e \in Range(document_chunks)}
    ELSE {tagged_chunk(c.source, c.content) :
             c \in Range(user_documents[result.user].chunks)}

\* C8: when retrieval returns at least one chunk, ask_question calls the
\* generation service exactly once, with one prompt that contains every
\* selected chunk behind its source tag and the question as it was asked,
\* and when the service answers, returns the service's text unchanged.
C8_AnswerFromChunks ==
    (result.op = "ask" /\ result.retrieved /\ result.selected # << >>) =>
        /\ Len(result.prompts) = 1
        /\ \A k \in 1..Len(selected_tagged) :
              /\ selected_tagged[k] \in stored_tagged
              /\ contains(result.prompts[1], selected_tagged[k])
        /\ contains(result.prompts[1], result.arg)
        /\ (result.gen.ok => result.ret = result.gen.text)

\* A call in which retrieval selected a chunk and the service answered
C8_Witness ==
    /\ result.op = "ask"
    /\ result.retrieved
    /\ result.selected # << >>
    /\ Len(result.prompts) = 1
    /\ result.gen.ok
    /\ result.ret = result.gen.text
    /\ result.ret # << >>

\* C9: add_document(content, title) never raises, whatever the store holds
\* and whatever the fetching of links returns or caches during the call.
C9_AddNeverRaises ==
    (variant \in ClassVariants /\ result.op = "add") => ~result.raised

\* C10: once an add or a remove has returned or raised, every stored
\* document is there with all its index entries (and, for the embedding
\* store, one embedding per chunk), and no index entry is there without a
\* stored document that it is a chunk of.
C10_NoPartialUpdate ==
    result.op \in {"add", "remove"} =>
        IF variant \in ClassVariants
        THEN /\ \A k \in 1..Len(documents) : \A c \in Range(documents[k].chunks) :
                    << c, documents[k].title >> \in Range(document_chunks)
             /\ \A e \in Range(document_chunks) : \E k \in 1..Len(documents) :
                    documents[k].title = e[2] /\ e[1] \in Range(documents[k].chunks)
        ELSE \A u \in Users :
                /\ Len(user_documents[u].embeddings) = Len(user_documents[u].chunks)
                /\ \A d \in Range(user_documents[u].documents) :
                      Range(paragraph_chunks(d.content, d.title))
                          \subseteq Range(user_documents[u].chunks)
                /\ \A c \in Range(user_documents[u].chunks) :
                      \E d \in Range(user_documents[u].documents) : d.title = c.source

\* ------------------------------------------ add_document_from_file calls

Files ==
    {File(FALSE, FALSE, FALSE, << >>, << >>, << >>),
     File(TRUE, FALSE, FALSE, << >>, << >>, <<"c","a","f">> \o << "0xE9" >>),
     File(TRUE, TRUE, FALSE, << >>, << >>, << >>),
     File(TRUE, TRUE, TRUE, << << >> >>, << >>, << >>),
     File(TRUE, TRUE, TRUE, << DocCat >>, << >>, << >>),
     File(TRUE, FALSE, TRUE, << >>, DocBlank, DocBlank),
     File(TRUE, FALSE, TRUE, << >>, << >>, << >>),
     File(TRUE, FALSE, TRUE, << >>, DocCat, DocCat)}

\* The store, the result and the file after add_document_from_file gave r:
\* result.status is 1 when the call reported an error (raised, or printed one)
Ingested(file, title, r) ==
    /\ documents' = r.documents
    /\ document_chunks' = r.document_chunks
    /\ fetched_urls' = r.cache
    /\ result' = Result("add_file", NoUser, title, << >>,
                        IF r.raised \/ r.outcome # "" THEN 1 ELSE 0,
                        << >>, << >>, NoGen, r.raised, ingestion_error(file))
    /\ UNCHANGED << web, variant, google_api_key, user_documents, user_fetched_urls >>

FileVariants == {"document_qa", "hr_bot", "hr_bot_auth"}

FileInit ==
    /\ variant \in FileVariants
    /\ google_api_key = FALSE
    /\ documents = << >>
    /\ document_chunks = << >>
    /\ fetched_urls = << >>
    /\ user_documents = [u \in Users |-> NoStore]
    /\ user_fetched_urls = [u \in Users |-> << >>]
    /\ NoRequests
    /\ result = Result("init", NoUser, << >>, << >>, 0, << >>, << >>, NoGen, FALSE, "")

\* document_qa.py: add_document_from_file(file_path, title)
AddDocumentFromFile ==
    /\ variant = "document_qa"
    /\ Len(documents) < MaxDocs
    /\ \E file \in Files, title \in Titles :
          Ingested(file, title,
                   qa_add_document_from_file(documents, document_chunks, fetched_urls,
                                             file, title))

\* web_app_hr_bot.py: add_document_from_file(file_path, title)
HrAddDocumentFromFile ==
    /\ variant = "hr_bot"
    /\ Len(documents) < MaxDocs
    /\ \E file \in Files, title \in Titles :
          Ingested(file, title,
                   hr_add_document_from_file(documents, document_chunks, fetched_urls,
                                             file, title, CHOOSE ord \in Orders : TRUE,
                                             CHOOSE net \in Nets : TRUE))

\* The store, the result and the file after the upload route's call of
\* add_document_from_file gave r
UploadedFile(user_email, file, title, r) ==
    /\ user_documents' = [user_documents EXCEPT ![user_email] = r.store]
    /\ user_fetched_urls' = [user_fetched_urls EXCEPT ![user_email] = r.fetched]
    /\ result' = Result("add_file", user_email, title, << >>,
                        IF r.raised THEN 500 ELSE 200,
                        << >>, << >>, NoGen, r.raised, ingestion_error(file))

\* web_app_hr_bot_auth.py: add_document_from_file(file_path, title,
\* user_email=user_email), as upload_document() calls it
AuthAddDocumentFromFile ==
    /\ variant = "hr_bot_auth"
    /\ total_documents < MaxDocs
    /\ \E user_email \in Users, file \in Files, title \in Titles :
          UploadedFile(user_email, file, title,
                       auth_add_document_from_file(user_documents[user_email],
                           user_fetched_urls[user_email], extracted_text(file), title,
                           CHOOSE ord \in Orders : TRUE, CHOOSE net \in AuthNets : TRUE,
                           file.exists /\ file.decodes, TRUE))
    /\ AuthFrame

FileNext ==
    \/ AddDocumentFromFile
    \/ HrAddDocumentFromFile
    \/ AuthAddDocumentFromFile

FileSpec == FileInit /\ [][FileNext]_vars

\* C11: an ingestion whose file is missing, is in an unreadable encoding or
\* has empty extracted text is reported to the caller (an error is raised or
\* printed, the route answers with an error status) and leaves the store
\* unchanged: no document, chunk or embedding is added.
C11_IngestionError ==
    [][(result'.op = "add_file" /\ result'.outcome # "") =>
          /\ result'.status \notin {0, 200}
          /\ documents' = documents
          /\ document_chunks' = document_chunks
          /\ \A u \in Users :
                /\ user_documents'[u].documents = user_documents[u].documents
                /\ user_documents'[u].chunks = user_documents[u].chunks
                /\ user_documents'[u].embeddings = user_documents[u].embeddings]_vars

\* ------------------------------------------------- the effect of add_document

\* C12: add_document(content, title) appends exactly one document, titled
\* title, at the end of the document sequence, and that document's chunks, in
\* order and each tagged with title, at the end of the chunk index; the
\* documents and the index entries stored before keep their content and order.
C12_AddAppends ==
    [][(result'.op = "add" /\ variant \in {"document_qa", "multi_model", "with_links"}) =>
          /\ Len(documents') = Len(documents) + 1
          /\ SubSeq(documents', 1, Len(documents)) = documents
          /\ documents'[Len(documents')].title = result'.arg
          /\ LET new == documents'[Len(documents')].chunks
             IN  /\ Len(document_chunks') = Len(document_chunks) + Len(new)
                 /\ SubSeq(document_chunks', 1, Len(document_chunks)) = document_chunks
                 /\ \A k \in 1..Len(new) :
                       document_chunks'[Len(document_chunks) + k] = << new[k], result'.arg >>]_vars

\* A second document with chunks was added behind a first one with chunks
C12_Witness ==
    /\ result.op = "add"
    /\ variant = "with_links"
    /\ Len(documents) = 2
    /\ documents[1].chunks # << >>
    /\ documents[2].chunks # << >>
    /\ documents[1].chunks # documents[2].chunks

\* ------------------------------------------------------ chunking of texts

\* The longest text that is chunked
MaxText == 21

\* The text of n characters with c at 1-based position p and d at q, "a"
\* elsewhere (position 0: nowhere)
Text(n, p, c, q, d) ==
    [k \in 1..n |-> IF k = p THEN c ELSE IF k = q THEN d ELSE "a"]

Marks == {".", "\n", " "}

Texts == {Text(n, p, c, q, d) : n \in 0..MaxText, p \in 0..MaxText, q \in 0..MaxText, c \in Marks, d \in Marks}

ChunkInit ==
    /\ variant \in {"document_qa", "multi_model"}
    /\ google_api_key = FALSE
    /\ documents = << >>
    /\ document_chunks = << >>
    /\ fetched_urls = << >>
    /\ user_documents = [u \in Users |-> NoStore]
    /\ user_fetched_urls = [u \in Users |-> << >>]
    /\ NoRequests
    /\ result = Result("init", NoUser, << >>, << >>, 0, << >>, << >>, NoGen, FALSE, "")

\* add_document(content, title) on the empty store, content any of Texts
AddText ==
    /\ documents = << >>
    /\ \E content \in Texts, title \in Titles :
          Stored("add", title,
                 qa_add_document(documents, document_chunks, fetched_urls, content, title))

ChunkNext == AddText

ChunkSpec == ChunkInit /\ [][ChunkNext]_vars

\* The 0-based starts of the spans [i, i + size) of a text
span_starts(text, size) == {i \in 0..Len(text) : i % size = 0 /\ i < Len(text)}

\* The 0-based offset of the last "." or newline of a span, -1 without one
last_break(span) ==
    LET at == {k \in 0..(Len(span) - 1) : span[k + 1] \in {".", "\n"}}
    IN  IF at = {} THEN -1 ELSE CHOOSE k \in at : \A j \in at : j <= k

\* The chunk the boundary rule gives for the span at i: a span that is not
\* the last one ends right after its break point when the break point is far
\* enough into the span (at 70% of size or later, or strictly later than 70%)
\* and is kept whole otherwise; the last span is kept whole
ruled_chunk(text, size, i, strictly) ==
    LET span == [k \in 1..Min(size, Len(text) - i) |-> text[i + k]]
        bp   == last_break(span)
        far  == IF strictly THEN 10 * bp > 7 * size ELSE 10 * bp >= 7 * size
    IN  IF i + size < Len(text) /\ far
        THEN [k \in 1..(bp + 1) |-> span[k]]
        ELSE span

\* The chunks of a text by the boundary rule, trimmed, the empty ones dropped
ruled_chunks(text, size, strictly) ==
    SelectSeq([j \in 1..Cardinality(span_starts(text, size)) |->
                  strip(ruled_chunk(text, size, (j - 1) * size, strictly))],
              LAMBDA c : c # << >>)

\* C13 (as claimed): every span that is not the last one is cut right after
\* its last "." or newline exactly when that break point is at offset
\* >= 0.7 * size of the span, and is kept whole otherwise; the last span is
\* never cut.
C13_BoundaryRule ==
    \A k \in 1..Len(documents) :
        documents[k].chunks = ruled_chunks(documents[k].content, chunk_size, FALSE)

\* C13 (amended): every span that is not the last one is cut right after its
\* last "." or newline exactly when that break point is at an offset
\* strictly greater than 0.7 * size of the span, and is kept whole otherwise;
\* the last span is never cut.
C13_BoundaryRuleStrict ==
    \A k \in 1..Len(documents) :
        documents[k].chunks = ruled_chunks(documents[k].content, chunk_size, TRUE)

\* A text of more than one span whose first span, of "a" and "." only, was
\* cut: the first chunk is shorter than the span though nothing was trimmed
C13_Witness ==
    /\ Len(documents) = 1
    /\ Len(documents[1].content) > chunk_size
    /\ \A k \in 1..chunk_size : documents[1].content[k] \in {"a", "."}
    /\ Len(documents[1].chunks) = 2
    /\ Len(documents[1].chunks[1]) < chunk_size

\* ------------------------------------------- chunking with any chunk size

\* The chunk sizes tried besides chunk_size: the SizeRange sizes below it
SizeRange == 3

Sizes == (chunk_size - SizeRange)..chunk_size

\* _chunk_text(text) of a new instance whose chunk_size is size: result.arg
\* is the text, result.status the size, result.selected the chunks
ChunkText ==
    /\ result.op = "init"
    /\ \E text \in Texts, size \in Sizes :
          result' = [Result("chunk", NoUser, text, << >>, size, << >>, << >>,
                            NoGen, FALSE, "")
                        EXCEPT !.selected = chunk_text_sized(text, size)]
    /\ UNCHANGED << web, variant, google_api_key, documents, document_chunks, fetched_urls,
                    user_documents, user_fetched_urls >>

SizedNext == ChunkText

SizedSpec == ChunkInit /\ [][SizedNext]_vars

\* The chunks cover the text from the span at i on: of every span a prefix is
\* there, trimmed (or nothing when that prefix is white space), the chunks in
\* the order of the spans; what a span has behind its prefix is the run that
\* is missing, no longer than 30% of size and empty for the last span.
RECURSIVE covers(_, _, _, _)
covers(text, size, i, chunks) ==
    IF i >= Len(text) THEN chunks = << >>
    ELSE LET n == Min(size, Len(text) - i)
         IN  \E kept \in 1..n :
                /\ 10 * (n - kept) <= 3 * size
                /\ (i + size >= Len(text) => kept = n)
                /\ LET c == strip([k \in 1..kept |-> text[i + k]])
                   IN  IF c = << >> THEN covers(text, size, i + size, chunks)
                       ELSE /\ chunks # << >>
                            /\ Head(chunks) = c
                            /\ covers(text, size, i + size, Tail(chunks))

\* C14: for every text and chunk size the chunks, in order, cover the text:
\* apart from trimmed white space, the characters missing between two
\* consecutive chunks form runs of at most one boundary adjustment, 30% of the
\* chunk size.
C14_Coverage ==
    result.op = "chunk" => covers(result.arg, result.status, 0, result.selected)

\* A text of three spans whose first span lost characters to its break point
C14_Witness ==
    /\ result.op = "chunk"
    /\ Len(result.arg) > 2 * result.status
    /\ Len(result.selected) = 3
    /\ \A k \in 1..Len(result.arg) : result.arg[k] \in {"a", "."}
    /\ Len(result.selected[1]) < result.status

\* ------------------------------------------------------- the stored chunks

\* c is a contiguous substring of text
substring_of(c, text) ==
    \E p \in 0..(Len(text) - Len(c)) : \A j \in 1..Len(c) : text[p + j] = c[j]

\* C15: every chunk the store holds is a contiguous substring of the content
\* of the document it belongs to, has no leading and no trailing white space,
\* is not empty and is at most chunk_size characters long.
C15_StoredChunks ==
    /\ \A k \in 1..Len(documents) : \A n \in 1..Len(documents[k].chunks) :
          LET c == documents[k].chunks[n]
          IN  /\ c # << >>
              /\ Len(c) <= chunk_size
              /\ c[1] \notin Whitespace
              /\ c[Len(c)] \notin Whitespace
              /\ substring_of(c, documents[k].content)
    /\ \A n \in 1..Len(document_chunks) :
          \E k \in 1..Len(documents) :
              /\ documents[k].title = document_chunks[n][2]
              /\ \E m \in 1..Len(documents[k].chunks) :
                    documents[k].chunks[m] = document_chunks[n][1]

\* A text of two spans was stored whose first span was cut at a newline and
\* trimmed at both ends, and whose chunks are both in the index
C15_Witness ==
    /\ Len(documents) = 1
    /\ Len(documents[1].content) > chunk_size
    /\ documents[1].content[1] = " "
    /\ \E k \in 1..chunk_size : documents[1].content[k] = "\n"
    /\ Len(documents[1].chunks) = 2
    /\ Len(documents[1].chunks[1]) < chunk_size - 1
    /\ Len(document_chunks) = 2

\* --------------------------------------------------- retrieval on any store

\* The most chunks a store of the retrieval runs holds
MaxIndex == 3

\* The chunks of the retrieval runs: each is a whole document of one chunk
ChunkTexts == {<<"c","a","t">>, <<"c","a","t"," ","m","a","t">>, <<"D","o","g"," ","m","a","t">>}

Queries == {<< >>, <<"c","a","t">>, <<"c","a","t"," ","m","a","t">>, <<"C","a","t"," "," ","M","A","T"," ","d","o","g">>, <<"z","e","b","r","a">>}

TopKs == {1, MaxIndex - 1, top_k_default}

\* The sequences of up to MaxIndex different (content, title) pairs
Entries ==
    {e \in UNION {[1..n -> ChunkTexts \X Titles] : n \in 0..MaxIndex} :
        \A i \in DOMAIN e : \A j \in DOMAIN e : i # j => e[i] # e[j]}

\* The store after add_document(content, title) for the first k entries
RECURSIVE store_after(_, _)
store_after(entries, k) ==
    IF k = 0 THEN store_outcome(<< >>, << >>, << >>, FALSE, "")
    ELSE LET s == store_after(entries, k - 1)
         IN  qa_add_document(s.documents, s.document_chunks, s.cache,
                             entries[k][1], entries[k][2])

\* The store of a user after the uploads of the first k entries
RECURSIVE auth_store_after(_, _)
auth_store_after(entries, k) ==
    IF k = 0 THEN EmptyStore
    ELSE auth_add_document_from_file(auth_store_after(entries, k - 1), << >>,
             entries[k][1], entries[k][2], CHOOSE ord \in Orders : TRUE,
             CHOOSE net \in AuthNets : TRUE, TRUE, TRUE).store

RankVariants == {"document_qa", "with_links", "hr_bot_auth"}

\* A store that holds the documents of some entries: the contents have no
\* URL, so add_document of every class variant stores the same
RankInit ==
    /\ variant \in RankVariants
    /\ google_api_key = FALSE
    /\ fetched_urls = << >>
    /\ user_fetched_urls = [u \in Users |-> << >>]
    /\ NoRequests
    /\ result = Result("init", NoUser, << >>, << >>, 0, << >>, << >>, NoGen, FALSE, "")
    /\ \E entries \in Entries :
          IF variant = "hr_bot_auth"
          THEN /\ documents = << >>
               /\ document_chunks = << >>
               /\ user_documents = [u \in Users |->
                                       IF u = UserA
                                       THEN auth_store_after(entries, Len(entries))
                                       ELSE NoStore]
          ELSE /\ documents = store_after(entries, Len(entries)).documents
               /\ document_chunks = store_after(entries, Len(entries)).document_chunks
               /\ user_documents = [u \in Users |-> NoStore]

\* _find_relevant_chunks(query, top_k) of the class variants: result.arg is
\* the query, result.status top_k, result.selected what it returned.  The
\* call leaves the store as it is, so one call per store shows every result.
FindRelevantChunks ==
    /\ variant \in ClassVariants
    /\ result.op = "init"
    /\ \E query \in Queries, top_k \in TopKs :
          result' = [Result("find", NoUser, query, << >>, top_k, << >>, << >>,
                            NoGen, FALSE, "")
                        EXCEPT !.selected = find_relevant_chunks(document_chunks, query, top_k)]
    /\ UNCHANGED << web, variant, google_api_key, documents, document_chunks, fetched_urls,
                    user_documents, user_fetched_urls >>

\* web_app_hr_bot_auth.py: _find_relevant_chunks(question, user_email, top_k)
AuthFindRelevantChunks ==
    /\ variant = "hr_bot_auth"
    /\ result.op = "init"
    /\ \E user_email \in Users, question \in Queries, top_k \in TopKs :
          result' = [Result("find", user_email, question, << >>, top_k, << >>, << >>,
                            NoGen, FALSE, "")
                        EXCEPT !.selected =
                            auth_find_relevant_chunks(user_documents[user_email],
                                                      question, top_k)]
    /\ UNCHANGED << user_documents, user_fetched_urls >>
    /\ AuthFrame

RankNext ==
    \/ FindRelevantChunks
    \/ AuthFindRelevantChunks

RankSpec == RankInit /\ [][RankNext]_vars
\* The lower-cased words of a text: its maximal runs of characters that are
\* not white space
words(text) ==
    LET runs == {r \in (1..Len(text)) \X (1..Len(text)) :
                    /\ r[1] <= r[2]
                    /\ \A k \in r[1]..r[2] : text[k] \notin Whitespace
                    /\ (r[1] = 1 \/ text[r[1] - 1] \in Whitespace)
                    /\ (r[2] = Len(text) \/ text[r[2] + 1] \in Whitespace)}
    IN  {lower(SubSeq(text, r[1], r[2])) : r \in runs}

\* |Q \cap W| for the query and the chunk at position p of the index: the
\* numerator of score(C) = |Q \cap W| / max(|Q|, 1), whose denominator is the
\* same for every chunk
overlap(query, p) == Cardinality(words(query) \cap words(document_chunks[p][1]))

\* The position in the index of entry j of the result (0: of no entry)
position(j) ==
    LET at == {p \in 1..Len(document_chunks) :
                  result.selected[j] = << "[From: " >> \o document_chunks[p][2]
                                           \o << "]\n" >> \o document_chunks[p][1]}
    IN  IF at = {} THEN 0 ELSE CHOOSE p \in at : TRUE

returned == {position(j) : j \in 1..Len(result.selected)}

\* C17: find_relevant_chunks(query, top_k) returns at most top_k entries of
\* the index, in non-increasing order of score(C) = |Q \cap W| / max(|Q|, 1)
\* over lower-cased white-space tokens; every returned entry has a score > 0,
\* and no entry left out has a strictly higher score than a returned one.
C17_TopKByScore ==
    (result.op = "find" /\ variant \in ClassVariants) =>
        LET n == Len(result.selected)
            den == Max(Cardinality(words(result.arg)), 1)
        IN  /\ n <= result.status
            /\ \A j \in 1..n : position(j) # 0 /\ overlap(result.arg, position(j)) * den > 0
            /\ \A i \in 1..n : \A j \in 1..n : i # j => position(i) # position(j)
            /\ \A i \in 1..n : \A j \in 1..n :
                  i < j => overlap(result.arg, position(i)) * den
                              >= overlap(result.arg, position(j)) * den
            /\ \A p \in 1..Len(document_chunks) : \A j \in 1..n :
                  p \notin returned =>
                      ~(overlap(result.arg, p) * den > overlap(result.arg, position(j)) * den)

\* A query of two words on three chunks of different scores, top_k below the
\* number of chunks that score: the result is cut and in score order, the
\* best chunk not being the first of the index
C17_Witness ==
    /\ result.op = "find"
    /\ variant \in ClassVariants
    /\ Len(document_chunks) = MaxIndex
    /\ result.status = MaxIndex - 1
    /\ Len(result.selected) = result.status
    /\ position(1) > 1
    /\ overlap(result.arg, position(1)) > overlap(result.arg, position(2))
    /\ \A p \in 1..Len(document_chunks) : overlap(result.arg, p) > 0
\* The user's store a retrieval of web_app_hr_bot_auth.py ran on
asked_store == IF result.user \in Users THEN user_documents[result.user] ELSE NoStore

\* The position in the user's chunks of entry j of the result (0: of none)
auth_position(j) ==
    LET at == {p \in 1..Len(asked_store.chunks) : asked_store.chunks[p] = result.selected[j]}
    IN  IF at = {} THEN 0 ELSE CHOOSE p \in at : TRUE

\* The score of the user's chunk p for the question: the dot product of its
\* embedding and the question's
similarity(p) == dot(asked_store.embeddings[p], embed(result.arg))

\* C18: ranking is stable: chunks of equal score are returned in the order
\* they have in the index, and where top_k cuts through chunks of equal score
\* the ones earlier in the index are returned, for every store and query.
C18_StableRanking ==
    result.op = "find" =>
        LET n == Len(result.selected)
        IN  IF variant \in ClassVariants
            THEN /\ \A i \in 1..n : \A j \in 1..n :
                       (i < j /\ overlap(result.arg, position(i)) = overlap(result.arg, position(j)))
                           => position(i) < position(j)
                 /\ \A p \in 1..Len(document_chunks) : \A j \in 1..n :
                       (p \notin returned /\ overlap(result.arg, p) = overlap(result.arg, position(j)))
                           => position(j) < p
            ELSE /\ \A i \in 1..n : \A j \in 1..n :
                       (i < j /\ similarity(auth_position(i)) = similarity(auth_position(j)))
                           => auth_position(i) < auth_position(j)
                 /\ \A p \in 1..Len(asked_store.chunks) : \A j \in 1..n :
                       (p \notin {auth_position(k) : k \in 1..n}
                           /\ similarity(p) = similarity(auth_position(j)))
                           => auth_position(j) < p
query_words_in(p) == words(result.arg) \cap words(document_chunks[p][1])

\* The place in the result of the index entry at position p (0: not returned)
rank(p) ==
    LET at == {j \in 1..Len(result.selected) : position(j) = p}
    IN  IF at = {} THEN 0 ELSE CHOOSE j \in at : TRUE

\* C20: for a fixed query, if the query words chunk A has are a strict
\* superset of the query words chunk B has, then score(A) >= score(B) and A
\* is never ranked after B: when B is returned, A is returned before it.
C20_Monotone ==
    (result.op = "find" /\ variant \in ClassVariants) =>
        \A a \in 1..Len(document_chunks) : \A b \in 1..Len(document_chunks) :
            (query_words_in(b) \subseteq query_words_in(a) /\ query_words_in(b) # query_words_in(a)) =>
                /\ Cardinality(query_words_in(a)) >= Cardinality(query_words_in(b))
                /\ (rank(b) # 0 => (rank(a) # 0 /\ rank(a) < rank(b)))

\* Chunk A stands behind chunk B in the index and has more of the query's
\* words, B having some: both are returned, A first
C20_Witness ==
    /\ result.op = "find"
    /\ variant \in ClassVariants
    /\ \E a \in 1..Len(document_chunks) : \E b \in 1..Len(document_chunks) :
          /\ b < a
          /\ query_words_in(b) # {}
          /\ query_words_in(b) \subseteq query_words_in(a)
          /\ query_words_in(b) # query_words_in(a)
          /\ rank(a) = 1
          /\ rank(b) = 2
\* C21: when the store holds at most top_k chunks, find_relevant_chunks
\* returns a chunk if and only if it shares at least one lower-cased
\* white-space-delimited token with the query, and every returned entry
\* carries as its citation tag the title of the document that owns the chunk.
C21_SharedTokenAndTag ==
    (result.op = "find" /\ variant \in ClassVariants
         /\ Len(document_chunks) <= result.status) =>
        /\ \A p \in 1..Len(document_chunks) :
              rank(p) # 0 <=> words(result.arg) \cap words(document_chunks[p][1]) # {}
        /\ \A j \in 1..Len(result.selected) :
              \E k \in 1..Len(documents) : \E n \in 1..Len(documents[k].chunks) :
                  result.selected[j] = << "[From: " >> \o documents[k].title
                                           \o << "]\n" >> \o documents[k].chunks[n]

\* One document "Doc1" whose only chunk is "cat mat", the query "cat mat" and
\* the default top_k: the one chunk is returned, tagged "Doc1"
C21_Witness ==
    /\ result.op = "find"
    /\ variant \in ClassVariants
    /\ result.status = top_k_default
    /\ Len(documents) = 1
    /\ documents[1].title = << "Doc1" >>
    /\ documents[1].content = <<"c","a","t"," ","m","a","t">>
    /\ result.arg = <<"c","a","t"," ","m","a","t">>
    /\ result.selected = << << "[From: ", "Doc1", "]\n" >> \o <<"c","a","t"," ","m","a","t">> >>
\* ------------------------------------------- _fetch_url_content, call by call

UrlC == <<"h","t","t","p",":","/","/","c">>

FetchURLs == URLs \cup {UrlC}

\* The page answers at some attempt, or some attempt raises an exception that
\* is no RequestException, or every attempt raises a RequestException
FetchBehaviours ==
    {answers_at(n) : n \in 1..max_retries} \cup {breaks_at(n) : n \in 1..max_retries}
        \cup {never_answers}

FetchInit ==
    /\ variant \in {"with_links", "hr_bot"}
    /\ google_api_key = FALSE
    /\ documents = << >>
    /\ document_chunks = << >>
    /\ fetched_urls = << >>
    /\ user_documents = [u \in Users |-> NoStore]
    /\ user_fetched_urls = [u \in Users |-> << >>]
    /\ NoRequests
    /\ result = Result("init", NoUser, << >>, << >>, 0, << >>, << >>, NoGen, FALSE, "")

\* The cache and the result after a call _fetch_url_content(url) gave f on
\* the network behaviour b: result.arg is the URL, result.ret the text
\* returned, result.outcome "text" or "none", result.status the number of
\* requests.get attempts made, result.listing the sleeps taken, in order, and
\* result.prompts what each attempt made met
Fetched(url, b, f) ==
    /\ fetched_urls' = f.cache
    /\ result' = Result("fetch", NoUser, url, f.ret.text, f.attempts, f.sleeps,
                        SubSeq(b, 1, f.attempts), NoGen, FALSE,
                        IF f.ret.some THEN "text" ELSE "none")
    /\ UNCHANGED << web, variant, google_api_key, documents, document_chunks,
                    user_documents, user_fetched_urls >>

\* web_app_with_links.py, web_app_hr_bot.py: _fetch_url_content(url)
FetchUrlContent ==
    \E url \in FetchURLs, b \in FetchBehaviours :
        Fetched(url, b, fetch_url_content(fetched_urls, url, b))

FetchNext == FetchUrlContent

FetchSpec == FetchInit /\ [][FetchNext]_vars

\* C22: the generation call and the URL fetch are each attempted a small
\* bounded number of times, and a failed attempt is followed by a retry with
\* exponential backoff until the bound is reached: a question whose generation
\* failed has sent its prompt more than once and at most max_retries times,
\* and a fetch makes at most max_retries attempts, goes on after every
\* RequestException short of the bound, and sleeps 2^attempt before each retry.
C22_BoundedRetries ==
    /\ (result.op = "ask" /\ result.prompts # << >>) =>
           /\ Len(result.prompts) <= max_retries
           /\ (result.outcome = "generation_failure" => Len(result.prompts) > 1)
    /\ result.op = "fetch" =>
           /\ result.status <= max_retries
           /\ \A i \in 1..result.status :
                  (result.prompts[i] = "request_error" /\ i < max_retries) => i < result.status
           /\ result.listing = [i \in 1..Len(result.listing) |-> 2 ^ (i - 1)]

\* C30: a call of _fetch_url_content makes at most max_retries network
\* attempts and sleeps 2^attempt only between two attempts; a URL fetched
\* successfully is cached with its text, stays cached, and a later call for it
\* returns the cached text without a network attempt; a URL whose fetch failed
\* is not cached and a later call for it attempts the network again.
C30_FetchCache ==
    [][result'.op = "fetch" =>
          LET url == result'.arg
              hit == cache_has(fetched_urls, url)
          IN  /\ result'.status <= max_retries
              /\ Len(result'.listing) = Max(result'.status, 1) - 1
              /\ \A i \in 1..Len(result'.listing) : result'.listing[i] = 2 ^ (i - 1)
              /\ hit => /\ result'.status = 0
                        /\ result'.outcome = "text"
                        /\ result'.ret = cache_get(fetched_urls, url)
              /\ ~hit => result'.status >= 1
              /\ (~hit /\ result'.outcome = "text") =>
                     /\ cache_has(fetched_urls', url)
                     /\ cache_get(fetched_urls', url) = result'.ret
              /\ result'.outcome = "none" =>
                     /\ ~cache_has(fetched_urls', url)
                     /\ fetched_urls' = fetched_urls
              /\ \A k \in 1..Len(fetched_urls) :
                     /\ cache_has(fetched_urls', fetched_urls[k][1])
                     /\ cache_get(fetched_urls', fetched_urls[k][1]) = fetched_urls[k][2]
    ]_vars

\* A call for a cached URL returned its cached text without an attempt, while
\* another URL is not in the cache
C30_Witness ==
    /\ result.op = "fetch"
    /\ result.arg = UrlA
    /\ result.status = 0
    /\ result.outcome = "text"
    /\ cache_has(fetched_urls, UrlA)
    /\ result.ret = cache_get(fetched_urls, UrlA)
    /\ ~cache_has(fetched_urls, UrlB)

\* C23: when a document with URLs is added, every URL for which the link
\* fetch yielded text (it is in the cache after the call) has that text
\* appended to the document's content, the chunks are those of the enhanced
\* content, and when no URL yielded text the document is still added with its
\* content unchanged.
C23_LinkedContent ==
    [][(result'.op = "add" /\ variant \in {"with_links", "hr_bot"}) =>
          /\ Len(documents') = Len(documents) + 1
          /\ SubSeq(documents', 1, Len(documents)) = documents
          /\ LET d == documents'[Len(documents')]
             IN  \E content \in Contents :
                     /\ Len(d.content) >= Len(content)
                     /\ SubSeq(d.content, 1, Len(content)) = content
                     /\ d.chunks = chunk_text(d.content)
                     /\ \A url \in extract_urls_from_text(content) :
                            cache_has(fetched_urls', url) =>
                                substring_of(cache_get(fetched_urls', url),
                                             SubSeq(d.content, Len(content) + 1, Len(d.content)))
                     /\ (\A url \in extract_urls_from_text(content) :
                             ~cache_has(fetched_urls', url)) => d.content = content
    ]_vars

\* ------------------------------------------------ list_documents on a store

ListNext == ListDocuments \/ AuthGetDocuments

\* The listings of the stores that a sequence of add_document calls, or of
\* uploads of one user, has left
ListSpec == RankInit /\ [][ListNext]_vars

\* The documents a listing is taken from
listed_documents ==
    IF variant = "hr_bot_auth" THEN user_documents[result'.user].documents ELSE documents

\* The chunks document d of the store was split into when it was added
own_chunks(d) ==
    IF variant = "hr_bot_auth" THEN paragraph_chunks(d.content, d.title) ELSE d.chunks

\* C24: list_documents returns one summary per stored document, in store
\* order, with the document's title, the length of its content and the number
\* of its own chunks, and leaves the documents and the chunk index unchanged.
C24_ListDocuments ==
    [][result'.op = "list" =>
          /\ Len(result'.listing) = Len(listed_documents)
          /\ \A k \in 1..Len(listed_documents) :
                 /\ result'.listing[k].title = listed_documents[k].title
                 /\ result'.listing[k].content_length = Len(listed_documents[k].content)
                 /\ result'.listing[k].chunks = Len(own_chunks(listed_documents[k]))
          /\ UNCHANGED << documents, document_chunks, user_documents >>
    ]_vars

\* ------------------------------------- /login/email and /login/email/verify

\* timedelta(minutes=2), the life of an OTP
otp_minutes == 2

MaxClock == 3

MaxIssues == 2

\* str(random.randint(100000, 999999))
Otps == {<<"1","1","1","1","1","1">>, <<"2","2","2","2","2","2">>}

\* The server of web_app_hr_bot_auth.py with nothing uploaded and nobody
\* logged in
AuthInit ==
    /\ variant = "hr_bot_auth"
    /\ google_api_key = FALSE
    /\ documents = << >>
    /\ document_chunks = << >>
    /\ fetched_urls = << >>
    /\ user_documents = [u \in Users |-> NoStore]
    /\ user_fetched_urls = [u \in Users |-> << >>]
    /\ NoRequests
    /\ result = Result("init", NoUser, << >>, << >>, 0, << >>, << >>, NoGen, FALSE, "")

OtpFrame ==
    UNCHANGED << variant, google_api_key, documents, document_chunks, fetched_urls,
                 user_documents, user_fetched_urls, temp_files >>

\* What a request of client c answered: the flash message as the outcome
Answered(c, op, email, status, outcome) ==
    result' = Result(op, c, email, << >>, status, << >>, << >>, NoGen,
                     status = 500, outcome)

\* email_login(), POST: an OTP is drawn and stored with its expiry, replacing
\* the email's earlier one
EmailLogin ==
    /\ Len(logins) < MaxIssues
    /\ \E c \in Clients, email \in Users, otp \in Otps :
          /\ requests[c].pc = "idle"
          /\ otp_store' = [otp_store EXCEPT ![email] =
                              [present |-> TRUE, otp |-> otp,
                               expiry |-> clock + otp_minutes,
                               serial |-> Len(logins) + 1]]
          /\ logins' = Append(logins, 0)
          /\ Answered(c, "email_login", email, 200, "otp_sent")
    /\ UNCHANGED << clock, session, requests >>
    /\ OtpFrame

\* email_verify(): `stored = otp_store.get(email)` and the test `if not stored`
VerifyGet ==
    /\ \E c \in Clients, email \in Users, otp \in Otps :
          /\ requests[c].pc = "idle"
          /\ IF otp_store[email].present
             THEN /\ requests' = [requests EXCEPT ![c] =
                                     [NoRequest EXCEPT !.pc = "stored", !.email = email,
                                                       !.otp = otp,
                                                       !.stored = otp_store[email]]]
                  /\ UNCHANGED result
             ELSE /\ Answered(c, "email_verify", email, 200, "no_otp")
                  /\ UNCHANGED requests
    /\ UNCHANGED << otp_store, clock, session, logins >>
    /\ OtpFrame

\* email_verify(): the tests `datetime.now(timezone.utc) > expiry` and
\* `otp != real_otp`
VerifyTest ==
    /\ \E c \in Clients :
          /\ requests[c].pc = "stored"
          /\ IF clock > requests[c].stored.expiry
             THEN /\ requests' = [requests EXCEPT ![c].pc = "expired"]
                  /\ UNCHANGED result
             ELSE IF requests[c].otp # requests[c].stored.otp
             THEN /\ requests' = [requests EXCEPT ![c] = NoRequest]
                  /\ Answered(c, "email_verify", requests[c].email, 200, "invalid")
             ELSE /\ requests' = [requests EXCEPT ![c].pc = "correct"]
                  /\ UNCHANGED result
    /\ UNCHANGED << otp_store, clock, session, logins >>
    /\ OtpFrame

\* email_verify(): `del otp_store[email]` after the expiry was detected; the
\* del raises KeyError when another request has deleted the entry
VerifyExpired ==
    /\ \E c \in Clients :
          /\ requests[c].pc = "expired"
          /\ requests' = [requests EXCEPT ![c] = NoRequest]
          /\ IF otp_store[requests[c].email].present
             THEN /\ otp_store' = [otp_store EXCEPT ![requests[c].email] = NoOtp]
                  /\ Answered(c, "email_verify", requests[c].email, 200, "expired")
             ELSE /\ UNCHANGED otp_store
                  /\ Answered(c, "email_verify", requests[c].email, 500, "KeyError")
    /\ UNCHANGED << clock, session, logins >>
    /\ OtpFrame

\* The session and the login count after the request of client c has logged
\* the client in with the OTP it read
logged_in(c) ==
    /\ session' = [session EXCEPT ![c] =
                      [logged_in |-> TRUE, user_email |-> requests[c].email]]
    /\ logins' = [logins EXCEPT ![requests[c].stored.serial] = @ + 1]

\* email_verify(): session['user_email'] = email, session['logged_in'] = True
\* and `del otp_store[email]`.  When another request has deleted the entry
\* the del raises KeyError after the session was written: the session is
\* saved with the error response where Flask handles the exception, and is
\* lost where the exception is propagated (debug mode).
VerifyCorrect ==
    /\ \E c \in Clients :
          /\ requests[c].pc = "correct"
          /\ requests' = [requests EXCEPT ![c] = NoRequest]
          /\ IF otp_store[requests[c].email].present
             THEN /\ otp_store' = [otp_store EXCEPT ![requests[c].email] = NoOtp]
                  /\ logged_in(c)
                  /\ Answered(c, "email_verify", requests[c].email, 302, "logged_in")
             ELSE /\ UNCHANGED otp_store
                  /\ \/ logged_in(c)
                     \/ UNCHANGED << session, logins >>
                  /\ Answered(c, "email_verify", requests[c].email, 500, "KeyError")
    /\ UNCHANGED clock
    /\ OtpFrame

\* A minute passes between requests
Tick ==
    /\ clock < MaxClock
    /\ \A c \in Clients : requests[c].pc = "idle"
    /\ clock' = clock + 1
    /\ UNCHANGED << otp_store, session, requests, logins, result >>
    /\ OtpFrame

OtpNext ==
    \/ EmailLogin
    \/ VerifyGet
    \/ VerifyTest
    \/ VerifyExpired
    \/ VerifyCorrect
    \/ Tick

OtpSpec == AuthInit /\ [][OtpNext]_vars

\* C25: a session becomes logged in for an email only through a verify
\* request whose OTP equals the OTP stored for that email at that moment and
\* not expired; a successful verify and a detected expiry delete the stored
\* OTP, a wrong OTP leaves it; and each OTP issued logs a client in at most
\* once, however the verify requests interleave.
C25_OtpLogin ==
    [][/\ \A c \in Clients :
              LET r == requests[c]
              IN  /\ session'[c] # session[c] =>
                         /\ r.pc = "correct"
                         /\ session'[c] = [logged_in |-> TRUE, user_email |-> r.email]
                         /\ otp_store[r.email].present
                         /\ otp_store[r.email].otp = r.otp
                         /\ clock <= otp_store[r.email].expiry
                         /\ ~otp_store'[r.email].present
                  /\ (r.pc = "expired" /\ requests'[c].pc = "idle") =>
                         ~otp_store'[r.email].present
                  /\ (r.pc = "stored" /\ requests'[c].pc = "idle") =>
                         otp_store' = otp_store
       /\ \A n \in 1..Len(logins') : logins'[n] <= 1
    ]_vars

\* ------------------------------------- the routes of web_app_hr_bot_auth.py
\* for two users, one request after the other

MaxStored == 2

UserContents == {<<"c","a","t"," ","m","a","t","\n","\n","d","o","g"," ","r","a","n">>, DocLink}

\* The route /api/upload, for a server that holds the uploads of several
\* users; every linked page answers at the first attempt
UserUpload ==
    /\ variant = "hr_bot_auth"
    /\ total_documents < MaxStored
    /\ \E user_email \in Users, title \in Titles, content \in UserContents,
          encode_ok \in BOOLEAN :
          Uploaded(user_email, title, Cardinality(auth_find_urls(content)),
                   auth_add_document_from_file(user_documents[user_email],
                       user_fetched_urls[user_email], content, title,
                       CHOOSE ord \in Orders : TRUE, [u \in URLs |-> answers_at(1)],
                       TRUE, encode_ok))
    /\ AuthFrame

UserNext ==
    \/ UserUpload
    \/ AuthRemove
    \/ AuthGetDocuments
    \/ AuthChat

UserSpec == AuthInit /\ [][UserNext]_vars

\* C26: a request in a session for user A changes only user_documents[A] and
\* user_fetched_urls[A]; the summaries it answers with are those of A's
\* documents, counted over A's chunks, and the chunks it answers a question
\* from are chunks of A.
C26_UserIsolation ==
    [][result'.op \in {"add", "remove", "list", "ask"} =>
          LET A == result'.user
          IN  /\ \A u \in Users \ {A} :
                     /\ user_documents'[u] = user_documents[u]
                     /\ user_fetched_urls'[u] = user_fetched_urls[u]
              /\ result'.listing # << >> =>
                     result'.listing = auth_listing(user_documents'[A])
              /\ \A j \in 1..Len(result'.selected) :
                     \E k \in 1..Len(user_documents[A].chunks) :
                         result'.selected[j] = user_documents[A].chunks[k]
    ]_vars

\* User al@x is answered from a chunk of their own while bo@x holds other chunks
C26_Witness ==
    /\ result.op = "ask"
    /\ result.user = UserA
    /\ result.selected # << >>
    /\ user_documents[UserB].chunks # << >>
    /\ \A k \in 1..Len(user_documents[UserB].chunks) :
           \A j \in 1..Len(user_documents[UserA].chunks) :
               user_documents[UserB].chunks[k].content
                   # user_documents[UserA].chunks[j].content

\* C28: for every user the chunks and the embeddings have the same length and
\* embeddings[i] is the embedding of chunks[i], after any sequence of uploads
\* and removals.
C28_EmbeddingsAligned ==
    \A u \in Users :
        /\ Len(user_documents[u].embeddings) = Len(user_documents[u].chunks)
        /\ \A i \in 1..Len(user_documents[u].chunks) :
               user_documents[u].embeddings[i] = embed(user_documents[u].chunks[i].content)

\* An upload whose encode call failed has stored its document next to an
\* earlier one whose chunks and embeddings are in place
C28_Witness ==
    /\ result.op = "add"
    /\ result.raised
    /\ Len(user_documents[result.user].documents) = 2
    /\ Len(user_documents[result.user].chunks) = 2
    /\ Len(user_documents[result.user].embeddings) = 2

\* C29: ask_question, and the _find_relevant_chunks it calls, leave the store
\* as it was in every outcome: the documents and the chunk index, its order
\* included, are the same after the call as before.
C29_AskLeavesStore ==
    [][result'.op = "ask" =>
          /\ result'.outcome \in Unanswered \cup {"answered", "other"}
          /\ documents' = documents
          /\ document_chunks' = document_chunks
          /\ user_documents' = user_documents
    ]_vars

\* A question on a store of several chunks whose generation failed
C29_Witness ==
    /\ variant = "document_qa"
    /\ result.op = "ask"
    /\ result.outcome = "generation_failure"
    /\ Len(document_chunks) >= 2
    /\ result.selected # << >>

\* -------------------------------- /api/upload, two requests at the same time

UploadFrame ==
    UNCHANGED << variant, google_api_key, documents, document_chunks, fetched_urls,
                 otp_store, clock, session, logins >>

\* upload_document(): temp_path = f"temp_{filename}" and file.save(temp_path),
\* which creates the file or overwrites it with the bytes of this upload
UploadSave ==
    /\ \E c \in Clients, user_email \in Users, filename \in Filenames,
          file \in UserContents :
          /\ requests[c].pc = "idle"
          /\ temp_files' = [temp_files EXCEPT ![filename] =
                               [exists |-> TRUE, content |-> file]]
          /\ requests' = [requests EXCEPT ![c] =
                             [NoRequest EXCEPT !.pc = "saved", !.email = user_email,
                                               !.filename = filename, !.file = file]]
    /\ UNCHANGED << user_documents, user_fetched_urls, result >>
    /\ UploadFrame

\* What upload_document() answers with status 500 after an exception
Failed(c) ==
    /\ requests' = [requests EXCEPT ![c].pc = "done", ![c].status = 500]
    /\ result' = Result("add", requests[c].email, requests[c].filename,
                        << "Error processing document: ", "[str(e)]" >>,
                        500, << >>, << >>, NoGen, TRUE, "")

\* add_document_from_file(): os.path.exists(file_path), which raises
\* FileNotFoundError when the file is gone, and the read of the file
UploadRead ==
    /\ \E c \in Clients :
          /\ requests[c].pc = "saved"
          /\ IF temp_files[requests[c].filename].exists
             THEN /\ requests' = [requests EXCEPT
                                     ![c].pc = "read",
                                     ![c].content = temp_files[requests[c].filename].content]
                  /\ UNCHANGED result
             ELSE Failed(c)
    /\ UNCHANGED << user_documents, user_fetched_urls, temp_files >>
    /\ UploadFrame

\* add_document_from_file(): the text that was read is stored as a document
\* of the user, with its linked pages, chunks and embeddings
UploadStore ==
    /\ \E c \in Clients :
          /\ requests[c].pc = "read"
          /\ LET user_email == requests[c].email
                 r == auth_add_document_from_file(user_documents[user_email],
                          user_fetched_urls[user_email], requests[c].content,
                          requests[c].filename, CHOOSE ord \in Orders : TRUE,
                          [u \in URLs |-> answers_at(1)], TRUE, TRUE)
             IN  /\ user_documents' = [user_documents EXCEPT ![user_email] = r.store]
                 /\ user_fetched_urls' = [user_fetched_urls EXCEPT ![user_email] = r.fetched]
          /\ requests' = [requests EXCEPT ![c].pc = "stored"]
    /\ UNCHANGED << temp_files, result >>
    /\ UploadFrame

\* upload_document(): os.remove(temp_path), which raises FileNotFoundError
\* when the file is gone, and the answer
UploadRemove ==
    /\ \E c \in Clients :
          /\ requests[c].pc = "stored"
          /\ IF temp_files[requests[c].filename].exists
             THEN /\ temp_files' = [temp_files EXCEPT ![requests[c].filename] = NoFile]
                  /\ requests' = [requests EXCEPT ![c].pc = "done", ![c].status = 200]
                  /\ result' = Result("add", requests[c].email, requests[c].filename,
                                      << >>, 200,
                                      auth_listing(user_documents[requests[c].email]),
                                      << >>, NoGen, FALSE, "")
             ELSE /\ Failed(c)
                  /\ UNCHANGED temp_files
    /\ UNCHANGED << user_documents, user_fetched_urls >>
    /\ UploadFrame

UploadNext ==
    \/ UploadSave
    \/ UploadRead
    \/ UploadStore
    \/ UploadRemove

UploadSpec == AuthInit /\ [][UploadNext]_vars

\* C27: of two upload requests with the same secured filename handled at the
\* same time, each ingests the bytes of its own file and completes without
\* error.
C27_OwnUpload ==
    \A c \in Clients :
        /\ requests[c].pc \in {"read", "stored", "done"} =>
               (requests[c].status # 500 => requests[c].content = requests[c].file)
        /\ requests[c].pc = "done" => requests[c].status = 200
====
